---- MODULE Spec2Model ----
(***************************************************************************)
(* A model of the Elements collection of the gadget runtime                *)
(* (ggadget/elements.cc): the ordered, owning sequence of sibling          *)
(* elements, its mutation operations and its mouse / drag dispatch loops.  *)
(*                                                                         *)
(* A dispatch pass is modelled step by step, because the nested handler    *)
(* call is re-entrant: while a child's handler runs, RemoveElement,        *)
(* RemoveAllElements and the destruction of the whole collection can run   *)
(* on the same collection.  The children vector is modelled with its       *)
(* physical storage: children_ is the logical content and tail holds the   *)
(* slots beyond size() that an erase leaves behind inside a pass, so that  *)
(* an iterator used after an erase reads what the storage really holds.    *)
(***************************************************************************)
EXTENDS Integers, Sequences, FiniteSets, TLC

\* ------------------------------------------------------------------ bounds

\* Elements the factory creates in one behaviour (ids 1..MaxElems).
MaxElems == 3

\* Elements created in a behaviour of layout and draw.
MaxDrawn == 2

\* ------------------------------------------------------- program constants

\* The NULL pointer.
Null == 0

\* EventResult values.
EVENT_RESULT_UNHANDLED == "UNHANDLED"
EVENT_RESULT_HANDLED == "HANDLED"
EVENT_RESULT_CANCELED == "CANCELED"
EventResults == {EVENT_RESULT_UNHANDLED, EVENT_RESULT_HANDLED, EVENT_RESULT_CANCELED}

\* Event types dispatched through the collection.
MouseTypes == {"MOUSE_DOWN", "MOUSE_UP"}
DragTypes == {"DRAG_MOTION"}

\* ------------------------------------------------------------- input sets

ElemIds == 1 .. MaxElems

\* The element that owns the collection when it is not owned by the view.
OwnerElem == MaxElems + 1

\* C strings are sequences of characters.  The NULL char pointer is a value
\* that no string equals.
NullStr == <<"NULL">>

\* The letters, in ASCII order.
Upper == <<"A", "B", "C", "D", "E", "F", "G", "H", "I", "J", "K", "L", "M",
           "N", "O", "P", "Q", "R", "S", "T", "U", "V", "W", "X", "Y", "Z">>
Lower == <<"a", "b", "c", "d", "e", "f", "g", "h", "i", "j", "k", "l", "m",
           "n", "o", "p", "q", "r", "s", "t", "u", "v", "w", "x", "y", "z">>

\* Tag names handed to the factory; "bogus" has no creator.
RegisteredTags == { <<"d", "i", "v">> }
TagNames == RegisteredTags \cup { <<"b", "o", "g", "u", "s">> }

\* Tag names the host registers with a factory and asks it for.
FactoryTags == { <<"p", "i", "e">>, <<"P", "I", "E">>,
                 <<"d", "i", "v">>, <<"D", "i", "v">> }
UnknownTags == { <<"b", "r", "e", "a", "d">> }

\* Names given to the children when they are created: two that differ in
\* letter case only, and the empty name.
Names == << <<"t", "o", "p">>, <<"T", "o", "p">>, <<>> >>

\* Names looked up in the collection.
LookupNames == { <<"t", "o", "p">>, <<"T", "O", "P">>, <<"t", "o">>,
                 <<"r", "e", "c", "t">>, <<>>, NullStr }

\* Geometries given to the children: pixel position, pin, size, rotation.  A
\* plain box at the origin, a box pinned at its centre, a box rotated by a
\* quarter turn; the three overlap at (2, 2).
Geoms ==
  << [x |-> 0, y |-> 0, pinx |-> 0, piny |-> 0, w |-> 2, h |-> 2, rot |-> 0],
     [x |-> 2, y |-> 2, pinx |-> 1, piny |-> 1, w |-> 2, h |-> 2, rot |-> 0],
     [x |-> 2, y |-> 0, pinx |-> 0, piny |-> 0, w |-> 2, h |-> 2, rot |-> 90] >>

\* The geometry the caller gives element e after creating it.
geom == [e \in ElemIds |-> Geoms[((e - 1) % Len(Geoms)) + 1]]

\* The name the caller gives element e when creating it.
name_of == [e \in ElemIds |-> Names[((e - 1) % Len(Names)) + 1]]

\* Points (in the collection's own space) at which events arrive.
EventPoints == { <<2, 2>>, <<3, 3>> }

MouseEvents == {[type |-> t, x |-> pt[1], y |-> pt[2]] : t \in MouseTypes, pt \in EventPoints}
DragEvents == {[type |-> t, x |-> pt[1], y |-> pt[2]] : t \in DragTypes, pt \in EventPoints}

NoEvent == [type |-> "NONE", x |-> 0, y |-> 0]

\* ------------------------------------------------------------------ state

VARIABLES
  owner_,          \* Impl::owner_: Null when the view owns the collection
  impl_alive,      \* the Impl object exists (not yet destructed)
  children_,       \* Impl::children_: the logical content of the vector
  tail,            \* storage slots beyond size(), as erase left them in a pass
  count_changed_,  \* Impl::count_changed_
  alive,           \* elements created and not destroyed
  next_id,         \* the next element the factory creates
  hidden,          \* elements whose visibility flag is false
  pc,              \* "idle", "loop", "call", "done", "crashed"
  kind,            \* "mouse" or "drag": the dispatch function running
  event,           \* the incoming event of the pass
  new_event,       \* the local copy whose position is remapped per child
  ite,             \* index (1-based) the reverse iterator points at; 0 = rend()
  ite_valid,       \* no erase has invalidated the iterator in this pass
  child,           \* the local pointer `child` guarded by the death detector
  registry,        \* pointer slots registered with the view's death detector
  fired_element,   \* *fired_element
  in_element,      \* *in_element
  result,          \* value returned by the pass
  calls,           \* the calls the pass has made on children, in order
  snap,            \* children_ when the pass began
  ub_iter,         \* the pass advanced an invalidated iterator
  prev,            \* the pass completed right before this one: its event and
                   \* the elements destroyed inside their own handler
  ret,             \* what the last collection operation made between passes
                   \* returned
  last_op,         \* the name of that operation
  hooks,           \* the calls that operation made on the view's hooks
  deleted,         \* how many times each element has been deleted
  creators_,       \* ElementFactoryImpl::creators_: tag name -> creator
  asked,           \* the tag names RegisterElementClass has been called with
  factory_out,     \* what the last direct call on the factory returned
  width_,          \* Impl::width_, in half pixels
  height_,         \* Impl::height_, in half pixels
  canvas_,         \* Impl::canvas_: NoCanvas or the size of the cached canvas
  has_popup_,      \* Impl::has_popup_
  scrollable_,     \* Impl::scrollable_
  popup,           \* what view_->GetPopupElement() returns
  position_changed,\* the children whose position-changed flag is set
  size_changed,    \* the children whose size-changed flag is set
  shifted,         \* the children the caller has moved half a pixel right
  grown,           \* the children the caller has made half a pixel wider
  frame,           \* what the last Layout or Draw did and returned
  image_,          \* ImgElement::Impl::image_: Null or an image of Images
  crop_,           \* ImgElement::Impl::crop_
  stretch_middle_, \* ImgElement::Impl::stretch_middle_
  img_size,        \* the image element's pixel width and height
  img_out,         \* the last call of ImgElement::IsPointIn and its answer
  colormultiply_,  \* ImgElement::Impl::colormultiply_
  src_size,        \* ImgElement::Impl::src_width_ and src_height_
  img_fault,       \* the image element has called through a NULL image_
  qt_buttons,      \* the mouse buttons Qt reports as held down
  mouse_drag_moved_,   \* QtViewWidget::mouse_drag_moved_
  resize_drag_,        \* QtViewWidget::resize_drag_
  mouse_down_hittest_, \* QtViewWidget::mouse_down_hittest_
  delivered,       \* the events the widget has sent to the view since the
                   \* last mousePressEvent began
  qt_last,         \* the widget's last mouse handler and what it did
  split_out,       \* the last call of SplitFilePath and what it returned
  managers,        \* the ExtensionManager objects that exist
  destroyed,       \* the ExtensionManager objects that have been deleted
  extensions_,     \* ExtensionManager::Impl::extensions_ of each manager
  readonly_,       \* ExtensionManager::Impl::readonly_ of each manager
  global_manager_, \* ExtensionManager::Impl::global_manager_
  next_module,     \* the next Module object to be created
  ext_out          \* the last call on an ExtensionManager and its result

vars == <<owner_, impl_alive, children_, tail, count_changed_, alive,
          next_id, hidden, pc, kind, event, new_event, ite, ite_valid,
          child, registry, fired_element, in_element, result, calls, snap,
          ub_iter, prev, ret, last_op, hooks, deleted, creators_, asked,
          factory_out, width_, height_, canvas_, has_popup_, scrollable_,
          popup, position_changed, size_changed, shifted, grown, frame,
          image_, crop_, stretch_middle_, img_size, img_out,
          colormultiply_, src_size, img_fault,
          qt_buttons, mouse_drag_moved_, resize_drag_, mouse_down_hittest_,
          delivered, qt_last, split_out, managers, destroyed, extensions_,
          readonly_, global_manager_, next_module, ext_out>>

\* The image element's own state.
img_vars == <<image_, crop_, stretch_middle_, img_size, img_out,
              colormultiply_, src_size, img_fault>>

\* The extension managers of the process.
extension_vars == <<managers, destroyed, extensions_, readonly_,
                    global_manager_, next_module, ext_out>>

\* The extension managers the host may create.
MaxManagers == 2
Managers == 1 .. MaxManagers

\* No call has been made on an extension manager.
NoExtOut == [op |-> "none", mgr |-> Null, name |-> "",
             resident |-> FALSE, ret |-> FALSE]

\* The Qt view widget's mouse state.
widget_vars == <<qt_buttons, mouse_drag_moved_, resize_drag_,
                 mouse_down_hittest_, delivered, qt_last>>

\* The state of the host-side objects beside the element tree.
host_vars == <<widget_vars, split_out, extension_vars>>

\* SplitFilePath has not been called.
NoSplit == [path |-> <<>>, ret |-> FALSE, dir_set |-> FALSE, dir |-> <<>>,
            filename_set |-> FALSE, filename |-> <<>>]

\* No mouse handler of the widget has run.
NoQtLast == [handler |-> "none", button |-> "none", did |-> "none"]

\* IsPointIn has not been called on the image element since it last changed.
NoImgOut == [op |-> "none", x |-> 0, y |-> 0, px |-> <<0, 0>>, ret |-> FALSE]

\* The factory's own state.
factory_vars == <<creators_, asked, factory_out>>

\* The NULL canvas pointer; a canvas is known by its size in pixels.
NoCanvas == [w |-> 0, h |-> 0]

\* Neither Layout nor Draw has run.
NoFrame == [op |-> "none", changed |-> FALSE, canvas |-> NoCanvas,
            created |-> FALSE, destroyed |-> FALSE, reached |-> FALSE,
            composited |-> FALSE, visited |-> <<>>, painted |-> <<>>,
            quiet |-> 0, dirty |-> {}, had_popup |-> FALSE,
            flipped |-> FALSE, alloc_failed |-> FALSE]

\* The extent, the cached canvas and the flags of compositing.
canvas_vars == <<width_, height_, canvas_, has_popup_, scrollable_>>

\* The geometry the children have been given and their dirty flags.
element_vars == <<position_changed, size_changed, shifted, grown>>

\* All that Layout and Draw work on.
render_vars == <<canvas_vars, element_vars, popup>>

\* An operation that is neither Layout nor Draw leaves no frame record.
NotAFrame == frame' = NoFrame

\* The collection's own state, apart from the elements that exist.
collection_vars == <<owner_, impl_alive, children_, tail, count_changed_,
                     hidden, pc, kind, event, new_event, ite, ite_valid,
                     child, registry, fired_element, in_element, result,
                     calls, snap, ub_iter, prev, ret, last_op, hooks, deleted>>

\* ---------------------------------------------------------------- helpers

\* A faulty search that answers the first position for an absent pointer.
Find_FirstWhenAbsent(s, e) ==
  IF \E i \in 1 .. Len(s) : s[i] = e
  THEN CHOOSE i \in 1 .. Len(s) : s[i] = e /\ \A j \in 1 .. (i - 1) : s[j] # e
  ELSE 1

\* Position of pointer e in sequence s (1-based), Len(s)+1 when absent:
\* std::find over [begin, end).
Find(s, e) ==
  IF \E i \in 1 .. Len(s) : s[i] = e
  THEN CHOOSE i \in 1 .. Len(s) : s[i] = e /\ \A j \in 1 .. (i - 1) : s[j] # e
  ELSE Len(s) + 1

\* vector::insert(pos, e).
InsertAt(s, i, e) == SubSeq(s, 1, i - 1) \o <<e>> \o SubSeq(s, i, Len(s))

\* A faulty erase that leaves the content as it was.
EraseAt_Keeps(s, i) == s

\* vector::erase(pos): the logical content afterwards.
EraseAt(s, i) == SubSeq(s, 1, i - 1) \o SubSeq(s, i + 1, Len(s))

\* The physical storage of the vector: content, then stale slots.
Buf == children_ \o tail

\* The element a pointer refers to: a child, or a descendant of a child
\* (written -c for a descendant of child c).
Base(ptr) == IF ptr < 0 THEN 0 - ptr ELSE ptr
PtrAlive(ptr) == Base(ptr) \in alive

\* The host's event loop has control: no dispatch pass is on the stack.
AtRest == pc = "idle"

\* No operation has returned anything.
NoRet == 0 - 1

NoPrev == [type |-> "NONE", x |-> 0, y |-> 0, gone |-> {}]

\* A pass at rest: the locals of the dispatch functions hold nothing.
PassReset ==
  /\ pc' = "idle"
  /\ kind' = "none"
  /\ event' = NoEvent
  /\ new_event' = NoEvent
  /\ ite' = 0
  /\ ite_valid' = TRUE
  /\ child' = Null
  /\ registry' = {}
  /\ fired_element' = Null
  /\ in_element' = Null
  /\ result' = "none"
  /\ calls' = <<>>
  /\ snap' = <<>>
  /\ ub_iter' = FALSE
  /\ prev' = NoPrev

\* No hook has been called.
NoHooks == <<>>

\* The factory has returned nothing.
NoOut == [op |-> "none", tag |-> NullStr, ok |-> FALSE, el |-> Null,
          tagname |-> NullStr]

\* A creator function, known by the tag name of the class it instantiates.
CreatorOf(tag_name) == [makes |-> tag_name]
NoCreator == [makes |-> NullStr]

\* The table of a factory on which the host has registered RegisteredTags.
InitialCreators == [k \in RegisteredTags |-> CreatorOf(k)]

\* The collection after construction.
CollectionInit ==
  /\ owner_ \in {Null, OwnerElem}
  /\ impl_alive = TRUE
  /\ children_ = <<>>
  /\ tail = <<>>
  /\ count_changed_ = TRUE
  /\ alive = {}
  /\ next_id = 1
  /\ hidden = {}
  /\ pc = "idle"
  /\ kind = "none"
  /\ event = NoEvent
  /\ new_event = NoEvent
  /\ ite = 0
  /\ ite_valid = TRUE
  /\ child = Null
  /\ registry = {}
  /\ fired_element = Null
  /\ in_element = Null
  /\ result = "none"
  /\ calls = <<>>
  /\ snap = <<>>
  /\ ub_iter = FALSE
  /\ prev = NoPrev
  /\ ret = NoRet
  /\ last_op = "none"
  /\ hooks = NoHooks
  /\ deleted = [e \in ElemIds |-> 0]
  /\ factory_out = NoOut
  /\ width_ = 0
  /\ height_ = 0
  /\ canvas_ = NoCanvas
  /\ has_popup_ = FALSE
  /\ scrollable_ = FALSE
  /\ popup = Null
  /\ position_changed = {}
  /\ size_changed = {}
  /\ shifted = {}
  /\ grown = {}
  /\ frame = NoFrame
  /\ image_ = Null
  /\ crop_ = "CROP_FALSE"
  /\ stretch_middle_ = FALSE
  /\ img_size = <<0, 0>>
  /\ img_out = NoImgOut
  /\ colormultiply_ = ""
  /\ src_size = <<0, 0>>
  /\ img_fault = FALSE
  /\ qt_buttons = {}
  /\ mouse_drag_moved_ = FALSE
  /\ resize_drag_ = FALSE
  /\ mouse_down_hittest_ = "HT_CLIENT"
  /\ delivered = <<>>
  /\ qt_last = NoQtLast
  /\ split_out = NoSplit
  /\ managers = {}
  /\ destroyed = {}
  /\ extensions_ = [m \in Managers |-> {}]
  /\ readonly_ = [m \in Managers |-> FALSE]
  /\ global_manager_ = Null
  /\ next_module = 1
  /\ ext_out = NoExtOut

Init ==
  /\ CollectionInit
  /\ creators_ = InitialCreators
  /\ asked = RegisteredTags

\* A factory on which nothing is registered yet.
EmptyTable == [k \in {} |-> NoCreator]

FactoryInit ==
  /\ CollectionInit
  /\ creators_ = EmptyTable
  /\ asked = {}

\* ------------------------------------------------------ external contracts

\* ctype: tolower on letters, and the code of a character (ASCII).
IsUpper(c) == \E i \in 1 .. Len(Upper) : Upper[i] = c
IsLower(c) == \E i \in 1 .. Len(Lower) : Lower[i] = c
\* A tolower that folds nothing.
ToLower_Identity(c) == c

\* tolower on one character.
ToLower(c) == IF IsUpper(c) THEN Lower[Find(Upper, c)] ELSE c
CharCode(c) ==
  IF IsUpper(c) THEN 64 + Find(Upper, c)
  ELSE IF IsLower(c) THEN 96 + Find(Lower, c)
  ELSE 127

\* The code compared at position i of string s: 0 is the terminating NUL.
CodeAt(s, i, fold) ==
  IF i > Len(s) THEN 0 ELSE CharCode(IF fold THEN ToLower(s[i]) ELSE s[i])

\* The comparison loop of strcmp / strcasecmp: the difference of the codes
\* at the first position where the strings differ or the first one ends.
CompareStrings(s1, s2, fold) ==
  LET stops == {i \in 1 .. (Len(s1) + 1) :
                  i > Len(s1) \/ CodeAt(s1, i, fold) # CodeAt(s2, i, fold)}
      n == CHOOSE i \in stops : \A j \in stops : i <= j
  IN CodeAt(s1, n, fold) - CodeAt(s2, n, fold)

strcmp(s1, s2) == CompareStrings(s1, s2, FALSE)
strcasecmp(s1, s2) == CompareStrings(s1, s2, TRUE)

\* A build that defines the macro GADGET_CASE_SENSITIVE.
GADGET_CASE_SENSITIVE_Defined == TRUE

\* The macro GADGET_CASE_SENSITIVE: no source defines it.
GADGET_CASE_SENSITIVE == FALSE

\* GadgetStrCmp as it is when the macro is defined.
GadgetStrCmp_Sensitive(s1, s2) == strcmp(s1, s2)

\* GadgetStrCmp(s1, s2).
GadgetStrCmp(s1, s2) ==
  IF GADGET_CASE_SENSITIVE THEN strcmp(s1, s2) ELSE strcasecmp(s1, s2)

\* GadgetCharPtrComparator: the strict order of the keys of creators_.
GadgetCharPtrComparator(s1, s2) == GadgetStrCmp(s1, s2) < 0

\* creators_.find(tag_name): the creator stored under the key equivalent to
\* tag_name in the map's order, NoCreator at end().
FindCreator(table, tag_name) ==
  LET keys == {k \in DOMAIN table :
                 /\ ~GadgetCharPtrComparator(k, tag_name)
                 /\ ~GadgetCharPtrComparator(tag_name, k)}
  IN IF keys = {} THEN NoCreator ELSE table[CHOOSE k \in keys : TRUE]

\* creators_[tag_name] = creator on a table without an equivalent key.
AddCreator(table, tag_name, creator) ==
  [k \in (DOMAIN table) \cup {tag_name} |->
     IF k = tag_name THEN creator ELSE table[k]]

\* Whether the factory has a creator for the tag (CreateElement yields NULL
\* otherwise).
FactoryCreates(tag_name) == FindCreator(creators_, tag_name) # NoCreator

\* BasicElement::GetName.
GetName(c) == name_of[c]

\* One call on a hook of the view; al is the set of elements alive when the
\* call is made.
HookCall(hook, e, al, s) ==
  [hook |-> hook, el |-> e, live |-> e \in al,
   stale |-> {s[j] : j \in 1 .. Len(s)} \ al]


\* The view's death detector: a registered pointer slot that refers to e is
\* zeroed when e is destroyed.  Only the slot `child` can hold a pointer while
\* a handler runs; descendant_in_element is written when the call returns.
DeathDetected(slot, ptr, e) ==
  IF slot \in registry /\ ptr = e THEN Null ELSE ptr

\* Integer cosine and sine of the rotations used (multiples of 90 degrees).
Cos(deg) == CASE deg = 0 -> 1 [] deg = 90 -> 0 [] deg = 180 -> -1 [] OTHER -> 0
Sin(deg) == CASE deg = 0 -> 0 [] deg = 90 -> 1 [] deg = 180 -> 0 [] OTHER -> -1

\* math_utils ParentCoordToChildCoord: the inverse of the compositing
\* transform translate(x, y), rotate(rot), translate(-pin).
ParentCoordToChildCoord(px, py, x, y, pinx, piny, rot) ==
  << (px - x) * Cos(rot) + (py - y) * Sin(rot) + pinx,
     (py - y) * Cos(rot) - (px - x) * Sin(rot) + piny >>

\* BasicElement::SelfCoordToChildCoord of the owner: the same mapping.
SelfCoordToChildCoord(c, px, py) ==
  ParentCoordToChildCoord(px, py, geom[c].x, geom[c].y,
                          geom[c].pinx, geom[c].piny, geom[c].rot)

\* BasicElement::IsPointIn: the point lies within the element's own box.
IsPointIn(c, x, y) ==
  /\ 0 <= x /\ x <= geom[c].w
  /\ 0 <= y /\ y <= geom[c].h

\* BasicElement::IsVisible.
IsVisible(c) == c \notin hidden

\* The position a child's local point has in the collection's space, as Draw
\* composites the child: translate by (x - pin) without rotation, else
\* translate(x, y), rotate, translate(-pin).
ChildCoordToParentCoord(c, cx, cy) ==
  IF geom[c].rot = 0
  THEN << cx + (geom[c].x - geom[c].pinx), cy + (geom[c].y - geom[c].piny) >>
  ELSE << geom[c].x + (cx - geom[c].pinx) * Cos(geom[c].rot)
                    - (cy - geom[c].piny) * Sin(geom[c].rot),
          geom[c].y + (cx - geom[c].pinx) * Sin(geom[c].rot)
                    + (cy - geom[c].piny) * Cos(geom[c].rot) >>

\* ---------------------------------------------------- collection operations

GetCount == Len(children_)

GetItemByIndex(index) ==
  IF index >= 0 /\ index < Len(children_) THEN children_[index + 1] ELSE Null

\* A faulty search that goes on to the last child with the name.
GetIndexByName_Last(name) ==
  IF name = NullStr \/ Len(name) = 0
  THEN 0 - 1
  ELSE LET hits == {i \in 1 .. Len(children_) :
                      GadgetStrCmp(GetName(children_[i]), name) = 0}
       IN IF hits = {} THEN 0 - 1
          ELSE (CHOOSE i \in hits : \A j \in hits : j <= i) - 1

\* GetIndexByName(name): the index of the first child, from begin(), whose
\* name GadgetStrCmp finds equal to name; -1 for a NULL or empty name and
\* when the loop ends.
GetIndexByName(name) ==
  IF name = NullStr \/ Len(name) = 0
  THEN 0 - 1
  ELSE LET hits == {i \in 1 .. Len(children_) :
                      GadgetStrCmp(GetName(children_[i]), name) = 0}
       IN IF hits = {} THEN 0 - 1
          ELSE (CHOOSE i \in hits : \A j \in hits : i <= j) - 1

GetItemByName(name) == GetItemByIndex(GetIndexByName(name))

\* Where AppendElement puts the new element: push_back.
AppendPos(s) == Len(s) + 1

\* A faulty insert position: behind `before` instead of in front of it.
InsertPos_Behind(s, before) ==
  IF Find(s, before) <= Len(s) THEN Find(s, before) + 1 ELSE Len(s) + 1

\* Where InsertElement puts the new element: std::find(begin, end, before),
\* which is end() when before is not a child.
InsertPos(s, before) == Find(s, before)

\* A faulty test that lets a NULL from the factory through.
CreationFailed_Ignored(e) == FALSE

\* if (e == NULL) return NULL.
CreationFailed(e) == e = Null

\* A faulty delete that destroys nothing.
Delete_Nothing(d, S) == d

\* delete of the elements in S.
Delete(d, S) == [e \in DOMAIN d |-> IF e \in S THEN d[e] + 1 ELSE d[e]]

\* BasicElement's constructor: a new element has both dirty flags set and
\* the geometry the caller gives it.
ElementMade(e) ==
  /\ position_changed' = position_changed \cup {e}
  /\ size_changed' = size_changed \cup {e}
  /\ UNCHANGED <<shifted, grown>>

\* AppendElement(tag_name, name); accept is the view's OnElementAdd answer.
AppendElement(tag_name, accept) ==
  /\ impl_alive /\ AtRest
  /\ next_id <= MaxElems
  /\ PassReset
  /\ tail' = <<>>
  /\ UNCHANGED <<owner_, impl_alive, hidden>>
  /\ UNCHANGED <<factory_vars, img_vars, host_vars>>
  /\ UNCHANGED <<canvas_vars, popup>> /\ NotAFrame
  /\ last_op' = "AppendElement"
  /\ LET e == IF FactoryCreates(tag_name) THEN next_id ELSE Null IN
     IF CreationFailed(e)
     THEN /\ ret' = Null
          /\ hooks' = NoHooks
          /\ UNCHANGED <<children_, count_changed_, alive, next_id, deleted,
                         element_vars>>
     ELSE /\ next_id' = next_id + 1
          /\ hooks' = <<HookCall("OnElementAdd", e, alive \cup {e}, children_)>>
          /\ IF accept
             THEN /\ children_' = InsertAt(children_, AppendPos(children_), e)
                  /\ count_changed_' = TRUE
                  /\ alive' = alive \cup {e}
                  /\ ret' = e
                  /\ ElementMade(e)
                  /\ UNCHANGED deleted
             ELSE /\ UNCHANGED <<children_, count_changed_, alive,
                                 element_vars>>
                  /\ deleted' = Delete(deleted, {e})
                  /\ ret' = Null

\* InsertElement(tag_name, before, name).
InsertElement(tag_name, before, accept) ==
  /\ impl_alive /\ AtRest
  /\ next_id <= MaxElems
  /\ PassReset
  /\ tail' = <<>>
  /\ UNCHANGED <<owner_, impl_alive, hidden>>
  /\ UNCHANGED <<factory_vars, img_vars, host_vars>>
  /\ UNCHANGED <<canvas_vars, popup>> /\ NotAFrame
  /\ last_op' = "InsertElement"
  /\ LET e == IF FactoryCreates(tag_name) THEN next_id ELSE Null IN
     IF CreationFailed(e)
     THEN /\ ret' = Null
          /\ hooks' = NoHooks
          /\ UNCHANGED <<children_, count_changed_, alive, next_id, deleted,
                         element_vars>>
     ELSE /\ next_id' = next_id + 1
          /\ hooks' = <<HookCall("OnElementAdd", e, alive \cup {e}, children_)>>
          /\ IF accept
             THEN /\ children_' = InsertAt(children_, InsertPos(children_, before), e)
                  /\ count_changed_' = TRUE
                  /\ alive' = alive \cup {e}
                  /\ ret' = e
                  /\ ElementMade(e)
                  /\ UNCHANGED deleted
             ELSE /\ UNCHANGED <<children_, count_changed_, alive,
                                 element_vars>>
                  /\ deleted' = Delete(deleted, {e})
                  /\ ret' = Null

\* What vector::erase at index idx leaves in the storage beyond size(): the
\* slot of the old last element keeps its value.
TailAfterErase(idx) == <<children_[Len(children_)]>> \o tail

\* vector::erase invalidates iterators at or after the erased position; the
\* reverse iterator at index ite holds the base iterator ite + 1.
IteratorSurvivesErase(idx) == idx > ite + 1

\* View::OnElementRemove drops the view's reference to a popup element that
\* is about to be destroyed; the flags and the geometry of a destroyed
\* element are gone with it.
ElementsGone(gone) ==
  /\ popup' = IF popup \in gone THEN Null ELSE popup
  /\ position_changed' = position_changed \ gone
  /\ size_changed' = size_changed \ gone
  /\ shifted' = shifted \ gone
  /\ grown' = grown \ gone

\* A faulty order: the element is deleted before the view is told.
AliveAtRemoveHook_Deleted(al, element) == al \ {element}

\* The elements alive when RemoveElement calls OnElementRemove: the call
\* comes before the delete.
AliveAtRemoveHook(al, element) == al

\* RemoveElement(element): also called by a handler while a pass waits in
\* the nested call.
RemoveElement(element) ==
  /\ impl_alive /\ (AtRest \/ pc = "call")
  /\ UNCHANGED <<owner_, impl_alive, next_id>>
  /\ UNCHANGED <<factory_vars, img_vars, host_vars>>
  /\ UNCHANGED canvas_vars /\ NotAFrame
  /\ LET idx == Find(children_, element)
         found == idx <= Len(children_)
     IN
     /\ ret' = IF pc = "call" THEN ret ELSE IF found THEN 1 ELSE 0
     /\ last_op' = IF pc = "call" THEN last_op ELSE "RemoveElement"
     /\ hooks' = IF pc = "call" THEN hooks
                 ELSE IF found
                 THEN <<HookCall("OnElementRemove", element,
                                 AliveAtRemoveHook(alive, element), children_)>>
                 ELSE NoHooks
     /\ IF found
        THEN /\ alive' = alive \ {element}
             /\ deleted' = Delete(deleted, {element})
             /\ children_' = EraseAt(children_, idx)
             /\ count_changed_' = TRUE
             /\ ElementsGone({element})
        ELSE UNCHANGED <<alive, deleted, children_, count_changed_,
                         element_vars, popup>>
     /\ IF pc = "call"
        THEN /\ child' = IF found THEN DeathDetected("child", child, element) ELSE child
             /\ tail' = IF found THEN TailAfterErase(idx) ELSE tail
             /\ ite_valid' = (ite_valid /\ (found => IteratorSurvivesErase(idx)))
             /\ UNCHANGED <<pc, kind, event, new_event, ite, registry, hidden,
                            fired_element, in_element, result, calls, snap,
                            ub_iter, prev>>
        ELSE /\ PassReset
             /\ tail' = <<>>
             /\ hidden' = IF found THEN hidden \ {element} ELSE hidden

\* A faulty loop that deletes each child before telling the view.
AliveAtRemoveAllHook_Deleted(al, s, i) == al \ {s[j] : j \in 1 .. i}

\* The elements alive when the loop of RemoveAllElements calls
\* OnElementRemove for the i-th child of s: the children before it are
\* deleted, the child itself not yet.
AliveAtRemoveAllHook(al, s, i) == al \ {s[j] : j \in 1 .. (i - 1)}

\* count_changed_ = true at the end of RemoveAllElements.
FlagAfterRemoveAll(flag) == TRUE

\* A faulty loop that stops one child short.
Doomed_ButLast(s) == {s[i] : i \in 1 .. (Len(s) - 1)}

\* The elements the loop of RemoveAllElements deletes: every child.
Doomed(s) == {s[i] : i \in 1 .. Len(s)}

\* The loop of RemoveAllElements and the swap with an empty vector.  The
\* storage the swap frees keeps its content for an iterator of a waiting
\* pass that still points into it.
RemoveAllEffects ==
  /\ alive' = alive \ Doomed(children_)
  /\ deleted' = Delete(deleted, Doomed(children_))
  /\ ElementsGone(Doomed(children_))
  /\ hooks' = IF pc = "call" THEN hooks
              ELSE [i \in 1 .. Len(children_) |->
                      HookCall("OnElementRemove", children_[i],
                               AliveAtRemoveAllHook(alive, children_, i), children_)]
  /\ children_' = <<>>
  /\ tail' = IF pc = "call" THEN children_ \o tail ELSE <<>>
  /\ count_changed_' = FlagAfterRemoveAll(count_changed_)
  /\ IF pc = "call"
     THEN /\ child' = IF \E i \in 1 .. Len(children_) : children_[i] = child
                      THEN DeathDetected("child", child, child) ELSE child
          /\ ite_valid' = FALSE
          /\ UNCHANGED <<pc, kind, event, new_event, ite, registry, hidden,
                         fired_element, in_element, result, calls, snap,
                         ub_iter, prev>>
     ELSE PassReset /\ hidden' = {}

RemoveAllElements ==
  /\ impl_alive /\ (AtRest \/ pc = "call")
  /\ RemoveAllEffects
  /\ ret' = IF pc = "call" THEN ret ELSE NoRet
  /\ last_op' = IF pc = "call" THEN last_op ELSE "RemoveAllElements"
  /\ UNCHANGED <<owner_, impl_alive, next_id>>
  /\ UNCHANGED <<factory_vars, img_vars, host_vars>>
  /\ UNCHANGED canvas_vars /\ NotAFrame

\* ~Impl: the collection is destroyed with its owner (by a handler, when an
\* owner exists) or with the view (at rest).
DestroyImpl ==
  /\ impl_alive
  /\ \/ AtRest
     \/ pc = "call" /\ owner_ # Null
  /\ RemoveAllEffects
  /\ impl_alive' = FALSE
  /\ ret' = IF pc = "call" THEN ret ELSE NoRet
  /\ last_op' = IF pc = "call" THEN last_op ELSE "~Impl"
  /\ UNCHANGED <<owner_, next_id>>
  /\ UNCHANGED <<factory_vars, img_vars, host_vars>>
  /\ canvas_' = NoCanvas
  /\ UNCHANGED <<width_, height_, has_popup_, scrollable_>> /\ NotAFrame

\* BasicElement::SetVisible of a child, between passes.
SetVisible(e, v) ==
  /\ impl_alive /\ AtRest
  /\ e \in alive
  /\ IsVisible(e) # v
  /\ hidden' = IF v THEN hidden \ {e} ELSE hidden \cup {e}
  /\ PassReset
  /\ tail' = <<>>
  /\ ret' = NoRet
  /\ last_op' = "SetVisible"
  /\ hooks' = NoHooks
  /\ UNCHANGED <<owner_, impl_alive, children_, count_changed_, alive, next_id,
                 deleted>>
  /\ UNCHANGED <<factory_vars, img_vars, host_vars>>
  /\ UNCHANGED render_vars /\ NotAFrame

\* A caller asks GetItemByName(name) between passes.
CallGetItemByName(name) ==
  /\ impl_alive /\ AtRest
  /\ ret' = GetItemByName(name)
  /\ last_op' = "GetItemByName"
  /\ hooks' = NoHooks
  /\ PassReset
  /\ tail' = <<>>
  /\ UNCHANGED <<owner_, impl_alive, children_, count_changed_, alive, next_id,
                 hidden, deleted>>
  /\ UNCHANGED <<factory_vars, img_vars, host_vars>>
  /\ UNCHANGED render_vars /\ NotAFrame

\* ------------------------------------------------------- layout and draw

\* Lengths are counted in half pixels, so that ceil has something to round.
Px(n) == 2 * n

\* ceil of a length, in whole pixels (the size_t the code casts it to).
Ceil(v) == (v + 1) \div 2

Max2(a, b) == IF a >= b THEN a ELSE b

\* The pixel size of the element that owns the collection, and the size of
\* the view, as Layout reads them.
OwnerPixelWidth == 3
OwnerPixelHeight == 4
ViewWidth == 2
ViewHeight == 2

\* BasicElement::GetPixelX and the other getters UpdateChildExtent reads.
GetPixelX(c) == Px(geom[c].x) + (IF c \in shifted THEN 1 ELSE 0)
GetPixelY(c) == Px(geom[c].y)
GetPixelPinX(c) == Px(geom[c].pinx)
GetPixelPinY(c) == Px(geom[c].piny)
GetPixelWidth(c) == Px(geom[c].w) + (IF c \in grown THEN 1 ELSE 0)
GetPixelHeight(c) == Px(geom[c].h)
GetRotation(c) == geom[c].rot

\* Where the compositing transform puts the child's point (cx, cy).
CornerInParent(x, y, pin_x, pin_y, rot, cx, cy) ==
  << x + (cx - pin_x) * Cos(rot) - (cy - pin_y) * Sin(rot),
     y + (cx - pin_x) * Sin(rot) + (cy - pin_y) * Cos(rot) >>

\* math_utils GetChildExtentInParent: the rightmost and the lowest
\* coordinate the child's box reaches in the parent.
GetChildExtentInParent(x, y, pin_x, pin_y, width, height, rot) ==
  LET corners == { CornerInParent(x, y, pin_x, pin_y, rot, cx, cy) :
                     cx \in {0, width}, cy \in {0, height} }
  IN << CHOOSE r \in {c[1] : c \in corners} : \A c \in corners : c[1] <= r,
        CHOOSE b \in {c[2] : c \in corners} : \A c \in corners : c[2] <= b >>

\* UpdateChildExtent(child, &extent_width, &extent_height): the extent
\* after the child is taken in.
UpdateChildExtent(c, extent_width, extent_height) ==
  LET x == GetPixelX(c)
      y == GetPixelY(c)
      pin_x == GetPixelPinX(c)
      pin_y == GetPixelPinY(c)
      width == GetPixelWidth(c)
      height == GetPixelHeight(c)
      est_maximum_extent == Max2(pin_x, width - pin_x) +
                            Max2(pin_y, height - pin_y)
      actual == GetChildExtentInParent(x, y, pin_x, pin_y, width, height,
                                       GetRotation(c))
  IN IF x + est_maximum_extent > extent_width \/
        y + est_maximum_extent > extent_height
     THEN << Max2(extent_width, actual[1]), Max2(extent_height, actual[2]) >>
     ELSE << extent_width, extent_height >>

\* The loop over UpdateChildExtent, from width_ = height_ = 0.
ChildrenExtent(s) ==
  LET upto[i \in 0 .. Len(s)] ==
        IF i = 0 THEN << 0, 0 >>
        ELSE UpdateChildExtent(s[i], upto[i - 1][1], upto[i - 1][2])
  IN upto[Len(s)]

\* BasicElement::IsPositionChanged, IsSizeChanged.
IsPositionChanged(c) == c \in position_changed
IsSizeChanged(c) == c \in size_changed

\* Layout: bool need_update_extents.
NeedUpdateExtents ==
  \E i \in 1 .. Len(children_) :
    IsPositionChanged(children_[i]) \/ IsSizeChanged(children_[i])

\* What Layout leaves in width_ and height_.
LayoutExtent ==
  IF scrollable_
  THEN IF NeedUpdateExtents \/ canvas_ = NoCanvas
       THEN ChildrenExtent(children_)
       ELSE << width_, height_ >>
  ELSE IF owner_ # Null
       THEN << Px(Ceil(OwnerPixelWidth)), Px(Ceil(OwnerPixelHeight)) >>
       ELSE << Px(ViewWidth), Px(ViewHeight) >>

\* What an operation called between passes leaves alone apart from its own
\* effect, and what it records.
HostOp(name) ==
  /\ impl_alive /\ AtRest
  /\ ret' = NoRet
  /\ last_op' = name
  /\ hooks' = NoHooks
  /\ PassReset
  /\ tail' = <<>>
  /\ UNCHANGED <<owner_, impl_alive, children_, alive, next_id, hidden, deleted>>
  /\ UNCHANGED <<factory_vars, img_vars, host_vars>>

\* Layout(): every child's Layout in order, then the extent.
Layout ==
  /\ HostOp("Layout")
  /\ width_' = LayoutExtent[1]
  /\ height_' = LayoutExtent[2]
  /\ frame' = [NoFrame EXCEPT !.op = "Layout", !.visited = children_]
  /\ UNCHANGED <<count_changed_, canvas_, has_popup_, scrollable_,
                 element_vars, popup>>

\* SetScrollable(scrollable).
SetScrollable(scrollable) ==
  /\ HostOp("set")
  /\ scrollable_' = scrollable
  /\ NotAFrame
  /\ UNCHANGED <<count_changed_, width_, height_, canvas_, has_popup_,
                 element_vars, popup>>

\* The view makes a child its popup element, or has none any more.
SetPopupElement(e) ==
  /\ HostOp("set")
  /\ e \in {Null} \cup alive
  /\ popup # e
  /\ popup' = e
  /\ NotAFrame
  /\ UNCHANGED <<count_changed_, canvas_vars, element_vars>>

\* A child is moved by half a pixel (and back): its position-changed flag
\* is set.
SetPixelX(e) ==
  /\ HostOp("set")
  /\ e \in alive
  /\ shifted' = IF e \in shifted THEN shifted \ {e} ELSE shifted \cup {e}
  /\ position_changed' = position_changed \cup {e}
  /\ NotAFrame
  /\ UNCHANGED <<count_changed_, canvas_vars, size_changed, grown, popup>>

\* A child is made half a pixel wider (and back): its size-changed flag is
\* set.
SetPixelWidth(e) ==
  /\ HostOp("set")
  /\ e \in alive
  /\ grown' = IF e \in grown THEN grown \ {e} ELSE grown \cup {e}
  /\ size_changed' = size_changed \cup {e}
  /\ NotAFrame
  /\ UNCHANGED <<count_changed_, canvas_vars, position_changed, shifted, popup>>

\* A faulty Draw that forgets the count-changed flag.
ChangedAtEntry_False(flag) == FALSE

\* *changed = count_changed_.
ChangedAtEntry(flag) == flag

\* A faulty Draw that goes on without children.
NothingToDraw_Never(s) == FALSE

\* if (children_.empty()) return NULL.
NothingToDraw(s) == Len(s) = 0

\* A faulty test that looks at the width only.
NeedsNewCanvas_WidthOnly(cv, w, h) == cv = NoCanvas \/ w # cv.w

\* !canvas_ || new_canvas_width != canvas_->GetWidth() || new_canvas_height
\* != canvas_->GetHeight().
NeedsNewCanvas(cv, w, h) == cv = NoCanvas \/ w # cv.w \/ h # cv.h

\* A faulty loop that skips no child.
IsPopup_Never(element, pop) == FALSE

\* bool has_popup = (element == popup).
IsPopup(element, pop) == element = pop

\* A faulty loop that leaves the flag set.
ClearPositionChanged_Kept(pos, element) == pos

\* element->ClearPositionChanged().
ClearPositionChanged(pos, element) == pos \ {element}

\* BasicElement::Draw(&child_changed) of a child: changed when its size
\* changed since its last Draw; the flag is cleared; an invisible element
\* has no canvas.
ElementDraw(size, element) ==
  [changed |-> element \in size,
   size |-> size \ {element},
   canvas |-> IF IsVisible(element) THEN element ELSE Null]

\* One round of the loop that draws the children into the temporary array.
DrawChild(st, element) ==
  LET has_popup == IsPopup(element, popup)
      drawn == ElementDraw(st.size, element)
      child_changed == drawn.changed \/ element \in st.pos
      flip == has_popup # st.has_popup
  IN IF has_popup
     THEN [st EXCEPT !.changed = st.changed \/ flip,
                     !.has_popup = has_popup,
                     !.flipped = st.flipped \/ flip]
     ELSE [changed |-> st.changed \/ child_changed \/ flip,
           has_popup |-> has_popup,
           flipped |-> st.flipped \/ flip,
           visited |-> Append(st.visited, element),
           canvases |-> IF drawn.canvas # Null
                        THEN Append(st.canvases, element) ELSE st.canvases,
           pos |-> IF element \in st.pos
                   THEN ClearPositionChanged(st.pos, element) ELSE st.pos,
           size |-> drawn.size]

\* The whole loop, entered with *changed as it is then.
DrawChildren(s, changed) ==
  LET upto[i \in 0 .. Len(s)] ==
        IF i = 0
        THEN [changed |-> changed, has_popup |-> has_popup_,
              flipped |-> FALSE, visited |-> <<>>, canvases |-> <<>>,
              pos |-> position_changed, size |-> size_changed]
        ELSE DrawChild(upto[i - 1], s[i])
  IN upto[Len(s)]

\* The children that have a dirty flag set.
DirtyChildren ==
  {children_[i] : i \in 1 .. Len(children_)} \cap
    (position_changed \cup size_changed)

\* Draw(&changed).  alloc_ok: whether NewCanvas, when called, returns a
\* canvas.
Draw(alloc_ok) ==
  /\ HostOp("Draw")
  /\ count_changed_' = FALSE
  /\ UNCHANGED <<width_, height_, scrollable_, shifted, grown, popup>>
  /\ LET new_canvas_width == Ceil(width_)
         new_canvas_height == Ceil(height_)
         fresh == NeedsNewCanvas(canvas_, new_canvas_width, new_canvas_height)
         out == [NoFrame EXCEPT !.op = "Draw",
                                !.quiet = IF last_op = "Draw" THEN 2 ELSE 1,
                                !.dirty = DirtyChildren,
                                !.had_popup = has_popup_]
     IN
     IF NothingToDraw(children_)
     THEN /\ frame' = [out EXCEPT !.changed = ChangedAtEntry(count_changed_)]
          /\ UNCHANGED <<canvas_, has_popup_, position_changed, size_changed>>
     ELSE IF fresh /\ (new_canvas_width = 0 \/ new_canvas_height = 0 \/
                       ~alloc_ok)
     THEN /\ canvas_' = NoCanvas
          /\ frame' = [out EXCEPT !.changed = TRUE,
                                  !.destroyed = canvas_ # NoCanvas,
                                  !.alloc_failed = new_canvas_width # 0 /\
                                                   new_canvas_height # 0]
          /\ UNCHANGED <<has_popup_, position_changed, size_changed>>
     ELSE LET loop == DrawChildren(children_,
                                   fresh \/ ChangedAtEntry(count_changed_))
          IN
          /\ canvas_' = IF fresh
                        THEN [w |-> new_canvas_width, h |-> new_canvas_height]
                        ELSE canvas_
          /\ has_popup_' = loop.has_popup
          /\ position_changed' = loop.pos
          /\ size_changed' = loop.size
          /\ frame' = [out EXCEPT !.changed = loop.changed,
                                  !.canvas = canvas_',
                                  !.created = fresh,
                                  !.destroyed = fresh /\ canvas_ # NoCanvas,
                                  !.reached = TRUE,
                                  !.composited = loop.changed,
                                  !.flipped = loop.flipped,
                                  !.visited = loop.visited,
                                  !.painted = IF loop.changed
                                              THEN loop.canvases ELSE <<>>]

\* ------------------------------------------------------------ dispatch pass

\* One entry of the record of calls a pass makes on children.
\*   op = "IsPointIn": hit test of el at (x, y), ok its answer
\*   op = "call":      el's handler invoked with the event (type, x, y)
\*   op = "ret":       that handler returned result, with *fired_element
\*                     fired; ok tells whether el survived the call
\*   op = "deref":     the read of el faulted
\* live tells whether el was alive when the entry was made and others is the
\* set of elements alive at that moment.
Entry(op, el, ev, ok, res, fired) ==
  [op |-> op, el |-> el, x |-> ev.x, y |-> ev.y, type |-> ev.type, ok |-> ok,
   result |-> res, fired |-> fired, live |-> el \in alive, others |-> alive]

\* The element whose handler is running (the last "call" entry).
Called == calls[Len(calls)].el

\* A faulty mapping that starts from the position left in new_event by the
\* previous child instead of the original event's position.
MapChildPositionEvent_Accumulates(org_event, c, ne) ==
  LET pos == IF owner_ # Null
             THEN SelfCoordToChildCoord(c, ne.x, ne.y)
             ELSE ParentCoordToChildCoord(ne.x, ne.y,
                                          geom[c].x, geom[c].y,
                                          geom[c].pinx, geom[c].piny,
                                          geom[c].rot)
  IN [ne EXCEPT !.x = pos[1], !.y = pos[2]]

\* MapChildPositionEvent(org_event, child, new_event): new_event with its
\* position set to org_event's position in the child's space.
MapChildPositionEvent(org_event, c, ne) ==
  LET pos == IF owner_ # Null
             THEN SelfCoordToChildCoord(c, org_event.x, org_event.y)
             ELSE ParentCoordToChildCoord(org_event.x, org_event.y,
                                          geom[c].x, geom[c].y,
                                          geom[c].pinx, geom[c].piny,
                                          geom[c].rot)
  IN [ne EXCEPT !.x = pos[1], !.y = pos[2]]

\* A faulty start of the loop: one element below the last.
RBegin_BelowTop(s) == IF Len(s) = 0 THEN 0 ELSE Len(s) - 1

\* children_.rbegin(): the reverse iterator starts at the last element.
RBegin(s) == Len(s)

\* ite != children_.rend().
NotREnd(i) == i # 0

\* ++ite of the reverse iterator.
NextIte(i) == i - 1

\* The loop's ++ite.  With the iterator invalidated by an erase the step is
\* undefined: the build either faults or goes on through the storage.
Advance ==
  /\ UNCHANGED <<tail, hidden>>
  /\ IF ite_valid
     THEN /\ ite' = NextIte(ite)
          /\ pc' = "loop"
          /\ UNCHANGED ub_iter
     ELSE /\ ub_iter' = TRUE
          /\ \E outcome \in {"fault", "goes_on"} :
               IF outcome = "fault"
               THEN pc' = "crashed" /\ ite' = ite
               ELSE pc' = "loop" /\ ite' = NextIte(ite)

\* return from the pass with value r.  The storage beyond size() and the
\* fields of destroyed elements are not looked at again.
Return(r) ==
  /\ pc' = "done"
  /\ result' = r
  /\ ite' = 0
  /\ tail' = <<>>
  /\ UNCHANGED <<ub_iter, hidden>>

\* The elements that were destroyed inside their own handler in the pass
\* that has just completed.
SelfRemoved ==
  {calls[k].el : k \in {j \in 1 .. Len(calls) : calls[j].op = "ret" /\ ~calls[j].ok}}

\* What a pass for event ev remembers of the pass completed right before:
\* kept for a mouse-up that follows, at the same point, a mouse-down in whose
\* handler an element was destroyed.
Completed(ev) ==
  IF /\ pc = "done" /\ kind = "mouse"
     /\ event.type = "MOUSE_DOWN" /\ ev.type = "MOUSE_UP"
     /\ event.x = ev.x /\ event.y = ev.y
     /\ SelfRemoved # {}
  THEN [type |-> event.type, x |-> event.x, y |-> event.y, gone |-> SelfRemoved]
  ELSE NoPrev

\* The entry of a dispatch function: outputs cleared, event copied, the
\* reverse iterator at rbegin().
BeginPass(k, ev) ==
  /\ impl_alive
  /\ AtRest \/ (pc = "done" /\ Completed(ev) # NoPrev)
  /\ pc' = "loop"
  /\ kind' = k
  /\ event' = ev
  /\ in_element' = Null
  /\ fired_element' = Null
  /\ new_event' = ev
  /\ ite' = RBegin(children_)
  /\ ite_valid' = TRUE
  /\ child' = Null
  /\ registry' = {}
  /\ result' = "none"
  /\ calls' = <<>>
  /\ snap' = children_
  /\ ub_iter' = FALSE
  /\ tail' = <<>>
  /\ prev' = Completed(ev)
  /\ ret' = NoRet
  /\ hidden' = hidden \cap alive
  /\ hooks' = NoHooks
  /\ last_op' = "none"
  /\ UNCHANGED <<owner_, impl_alive, children_, count_changed_, alive, next_id,
                 deleted>>
  /\ UNCHANGED <<factory_vars, img_vars, host_vars>>
  /\ UNCHANGED render_vars /\ NotAFrame

\* Elements::OnMouseEvent up to the loop.
BeginOnMouseEvent(ev) == BeginPass("mouse", ev)

\* Elements::OnDragEvent up to the loop.
BeginOnDragEvent(ev) == BeginPass("drag", ev)

\* A faulty check that never notices the death of the child.
ChildDied_Unnoticed(ch) == FALSE

\* The check made after the nested call: the guarded pointer was zeroed.
ChildDied(ch) == ch = Null

\* A faulty update that lets every surviving child overwrite *in_element.
NextInElement_Last(cur, descendant, ch) ==
  IF descendant # Null THEN descendant ELSE ch

\* *in_element after a surviving child's call.
NextInElement(cur, descendant, ch) ==
  IF cur = Null
  THEN (IF descendant # Null THEN descendant ELSE ch)
  ELSE cur

\* A faulty stop test that never sees a fired element.
Fired_Never(f) == FALSE

\* The loop stops once a fired element is reported.
Fired(f) == f # Null

\* A faulty OnMouseEvent that guards the child pointer only.
MouseGuards_ChildOnly == {"child"}

\* The pointer slots OnMouseEvent registers before the nested call.
MouseGuards == {"child", "descendant_in_element"}

\* The pointer slot OnDragEvent registers before the nested call.
DragGuards == {"child"}

\* A faulty visibility test that lets every child through.
MouseVisits_All(c) == TRUE

\* A faulty value for the end of the loop.
LoopEndResult_Handled == EVENT_RESULT_HANDLED

\* The value returned when the loop runs to rend().
LoopEndResult == EVENT_RESULT_UNHANDLED

\* Whether the loop looks further at a child: it is skipped when invisible.
MouseVisits(c) == IsVisible(c)
DragVisits(c) == IsVisible(c)

\* The containment gate in front of the nested call.
MouseGate(c, x, y) == IsPointIn(c, x, y)
DragGate(c, x, y) == IsPointIn(c, x, y)

\* The tests and guards of the dispatch function of kind k.
Visits(k, c) == IF k = "mouse" THEN MouseVisits(c) ELSE DragVisits(c)
Gate(k, c, x, y) == IF k = "mouse" THEN MouseGate(c, x, y) ELSE DragGate(c, x, y)
Guards(k) == IF k = "mouse" THEN MouseGuards ELSE DragGuards

\* One iteration of a dispatch loop up to the nested call, or the return
\* after the loop.  Reading a destroyed element through a stale slot is
\* undefined: the build either faults or reads what the object last held.
Iterate(k) ==
  /\ UNCHANGED <<owner_, impl_alive, children_, count_changed_, alive, next_id,
                 prev, ret, kind, event, ite_valid, fired_element, in_element,
                 snap, hooks, deleted, last_op>>
  /\ UNCHANGED <<factory_vars, img_vars, host_vars>>
  /\ UNCHANGED render_vars /\ NotAFrame
  /\ IF ~NotREnd(ite)
     THEN /\ Return(LoopEndResult)
          /\ UNCHANGED <<new_event, child, registry, calls>>
     ELSE LET e == Buf[ite] IN
          \E outcome \in (IF e \in alive THEN {"reads"} ELSE {"fault", "reads"}) :
            IF outcome = "fault"
            THEN /\ pc' = "crashed"
                 /\ calls' = Append(calls, Entry("deref", e, new_event, FALSE, "none", Null))
                 /\ UNCHANGED <<new_event, child, registry, ite, result, tail,
                                ub_iter, hidden>>
            ELSE IF ~Visits(k, e)
            THEN /\ Advance
                 /\ UNCHANGED <<new_event, child, registry, calls, result>>
            ELSE LET ne == MapChildPositionEvent(event, e, new_event)
                     hit == Gate(k, e, ne.x, ne.y)
                     tested == Append(calls, Entry("IsPointIn", e, ne, hit, "none", Null))
                 IN
                 /\ new_event' = ne
                 /\ IF hit
                    THEN /\ child' = e
                         /\ registry' = Guards(k)
                         /\ calls' = Append(tested, Entry("call", e, ne, TRUE, "none", Null))
                         /\ pc' = "call"
                         /\ UNCHANGED <<ite, result, tail, ub_iter, hidden>>
                    ELSE /\ calls' = tested
                         /\ Advance
                         /\ UNCHANGED <<child, registry, result>>

\* The loop of OnMouseEvent: one iteration up to child->OnMouseEvent.
OnMouseEvent_Iter ==
  /\ pc = "loop" /\ kind = "mouse"
  /\ Iterate("mouse")

\* The loop of OnDragEvent: one iteration up to (*ite)->OnDragEvent.
OnDragEvent_Iter ==
  /\ pc = "loop" /\ kind = "drag"
  /\ Iterate("drag")

\* What a child's OnMouseEvent may report when it returns: its result r, the
\* fired element f and the in-element d it found among its descendants.  A
\* child that survived and fired nothing reports UNHANDLED.
ChildMouseOutcome(c, survived, r, f, d) ==
  /\ r \in EventResults
  /\ f \in {Null, c, 0 - c}
  /\ d \in {Null, 0 - c}
  /\ (survived /\ f = Null) => r = EVENT_RESULT_UNHANDLED
  /\ ~survived => d = Null

\* The nested child->OnMouseEvent returns, and the rest of the iteration.
OnMouseEvent_AfterCall(r, f, d) ==
  /\ pc = "call" /\ kind = "mouse"
  /\ ChildMouseOutcome(Called, child # Null, r, f, d)
  /\ UNCHANGED <<owner_, impl_alive, children_, count_changed_, alive, next_id,
                 prev, ret, kind, event, new_event, ite_valid, snap, hooks,
                 deleted, last_op>>
  /\ UNCHANGED <<factory_vars, img_vars, host_vars>>
  /\ UNCHANGED render_vars /\ NotAFrame
  /\ calls' = Append(calls, Entry("ret", Called, new_event, child # Null, r, f))
  /\ fired_element' = f
  /\ registry' = {}
  /\ child' = Null
  /\ IF ChildDied(child)
     THEN /\ Return(r)
          /\ UNCHANGED in_element
     ELSE /\ in_element' = NextInElement(in_element, d, child)
          /\ IF Fired(f)
             THEN Return(r)
             ELSE Advance /\ UNCHANGED result

\* A faulty exit test that looks at the fired element only.
DragStops_FiredOnly(ch, f) == f # Null

\* The exit test after the nested drag call: !child || *fired_element.
DragStops(ch, f) == ch = Null \/ f # Null

\* What a child's OnDragEvent may report when it returns.
ChildDragOutcome(c, survived, r, f) ==
  /\ r \in EventResults
  /\ f \in {Null, c, 0 - c}
  /\ (survived /\ f = Null) => r = EVENT_RESULT_UNHANDLED

\* The nested (*ite)->OnDragEvent returns, and the rest of the iteration.
OnDragEvent_AfterCall(r, f) ==
  /\ pc = "call" /\ kind = "drag"
  /\ ChildDragOutcome(Called, child # Null, r, f)
  /\ UNCHANGED <<owner_, impl_alive, children_, count_changed_, alive, next_id,
                 prev, ret, kind, event, new_event, ite_valid, snap, in_element,
                 hooks, deleted, last_op>>
  /\ UNCHANGED <<factory_vars, img_vars, host_vars>>
  /\ UNCHANGED render_vars /\ NotAFrame
  /\ calls' = Append(calls, Entry("ret", Called, new_event, child # Null, r, f))
  /\ fired_element' = f
  /\ registry' = {}
  /\ child' = Null
  /\ IF DragStops(child, f)
     THEN Return(r)
     ELSE Advance /\ UNCHANGED result

\* The caller of a completed pass has consumed its outputs and control is
\* back in the host's event loop.
BackToHost ==
  /\ pc = "done"
  /\ PassReset
  /\ hidden' = hidden \cap alive
  /\ UNCHANGED <<owner_, impl_alive, children_, tail, count_changed_, alive,
                 next_id, ret, hooks, deleted, last_op>>
  /\ UNCHANGED <<factory_vars, img_vars, host_vars>>
  /\ UNCHANGED render_vars /\ NotAFrame

\* ------------------------------------------------------------ specification

Ptrs == (0 - MaxElems) .. MaxElems

Next ==
  \/ \E t \in TagNames, a \in BOOLEAN : AppendElement(t, a)
  \/ \E t \in TagNames, b \in {Null} \cup ElemIds, a \in BOOLEAN :
       InsertElement(t, b, a)
  \/ \E e \in {Null} \cup ElemIds : RemoveElement(e)
  \/ RemoveAllElements
  \/ DestroyImpl
  \/ \E e \in ElemIds, v \in BOOLEAN : SetVisible(e, v)
  \/ \E ev \in MouseEvents : BeginOnMouseEvent(ev)
  \/ OnMouseEvent_Iter
  \/ \E r \in EventResults, f \in Ptrs, d \in Ptrs : OnMouseEvent_AfterCall(r, f, d)
  \/ \E ev \in DragEvents : BeginOnDragEvent(ev)
  \/ OnDragEvent_Iter
  \/ \E r \in EventResults, f \in Ptrs : OnDragEvent_AfterCall(r, f)
  \/ BackToHost

Spec == Init /\ [][Next]_vars

\* RegisterElementClass(tag_name, creator): refused when the table already
\* has the tag.
RegisterElementClass(tag_name, creator) ==
  /\ LET exists == FindCreator(creators_, tag_name) # NoCreator IN
     /\ creators_' = IF exists THEN creators_
                     ELSE AddCreator(creators_, tag_name, creator)
     /\ factory_out' = [op |-> "RegisterElementClass", tag |-> tag_name,
                        ok |-> ~exists, el |-> Null, tagname |-> NullStr]
  /\ asked' = asked \cup {tag_name}
  /\ UNCHANGED <<collection_vars, render_vars, alive, next_id, img_vars,
               host_vars>>
  /\ NotAFrame

\* CreateElement(tag_name, parent, view, name) called on the factory: the
\* creator found for the tag makes the element, whose GetTagName is that of
\* the creator's class.
CreateElement(tag_name, parent) ==
  /\ parent \in {Null} \cup alive
  /\ LET creator == FindCreator(creators_, tag_name) IN
     IF creator = NoCreator
     THEN /\ factory_out' = [op |-> "CreateElement", tag |-> tag_name,
                             ok |-> FALSE, el |-> Null, tagname |-> NullStr]
          /\ UNCHANGED <<alive, next_id>>
     ELSE /\ next_id <= MaxElems
          /\ next_id' = next_id + 1
          /\ alive' = alive \cup {next_id}
          /\ factory_out' = [op |-> "CreateElement", tag |-> tag_name,
                             ok |-> TRUE, el |-> next_id,
                             tagname |-> creator.makes]
  /\ UNCHANGED <<collection_vars, render_vars, creators_, asked, img_vars,
               host_vars>>
  /\ NotAFrame

\* The factory used directly, as its unit test does.
FactoryNext ==
  \/ \E t \in FactoryTags : RegisterElementClass(t, CreatorOf(t))
  \/ \E t \in FactoryTags \cup UnknownTags, parent \in {Null} \cup ElemIds :
       CreateElement(t, parent)

FactorySpec == FactoryInit /\ [][FactoryNext]_vars

\* An element that belongs to another collection.
ForeignElem == MaxElems + 2

\* The collection used through its operations alone, between passes.
OpsNext ==
  \/ \E t \in TagNames, a \in BOOLEAN : AppendElement(t, a)
  \/ \E t \in TagNames, b \in {Null} \cup ElemIds, a \in BOOLEAN :
       InsertElement(t, b, a)
  \/ \E e \in {Null, ForeignElem} \cup ElemIds : RemoveElement(e)
  \/ RemoveAllElements
  \/ DestroyImpl
  \/ \E n \in LookupNames : CallGetItemByName(n)
  \/ \E alloc_ok \in BOOLEAN : Draw(alloc_ok)

OpsSpec == Init /\ [][OpsNext]_vars

\* The collection laid out and drawn frame after frame, while the caller
\* adds, removes, moves and resizes children and the view changes its popup
\* element.
DrawNext ==
  \/ \E t \in RegisteredTags : next_id <= MaxDrawn /\ AppendElement(t, TRUE)
  \/ \E t \in RegisteredTags :
       next_id <= MaxDrawn /\ InsertElement(t, GetItemByIndex(0), TRUE)
  \/ \E e \in alive : AtRest /\ RemoveElement(e)
  \/ RemoveAllElements
  \/ \E b \in BOOLEAN : SetScrollable(b)
  \/ \E e \in {Null} \cup ElemIds : SetPopupElement(e)
  \/ \E e \in alive \cap {1} : SetPixelX(e)
  \/ \E e \in alive \cap {1} : SetPixelWidth(e)
  \/ Layout
  \/ \E alloc_ok \in BOOLEAN : Draw(alloc_ok)

DrawSpec == Init /\ [][DrawNext]_vars

\* ------------------------------------------------------------ image element

\* Images the view can load: size in pixels, whether the pixels can be read
\* (an image surface of a known format), and the alpha byte of each pixel,
\* row by row.
Images ==
  << [w |-> 2, h |-> 2, readable |-> TRUE,
      alpha |-> << <<0, 255>>, <<128, 0>> >>],
     [w |-> 1, h |-> 2, readable |-> TRUE, alpha |-> << <<0>>, <<255>> >>],
     [w |-> 2, h |-> 2, readable |-> FALSE,
      alpha |-> << <<255, 255>>, <<255, 255>> >>] >>

ImgIds == 1 .. Len(Images)

\* Pixel sizes given to the image element, points it is asked about, and
\* image points the stretch-middle mapping may answer.
ImgSizes == {0, 2, 4}
ImgPoints == (0 - 1) .. 5
StretchTargets == {<<0, 1>>, <<1, 0>>, <<2, 2>>}

CropModes == {"CROP_FALSE", "CROP_TRUE", "CROP_PHOTO"}

\* round(n / d) for d > 0: halves go away from zero.
Round(n, d) ==
  IF n >= 0 THEN (2 * n + d) \div (2 * d)
  ELSE 0 - ((2 * (0 - n) + d) \div (2 * d))

\* A faulty test that takes only fully opaque pixels.
Opaque_Full(alpha) == alpha = 255

\* return opacity > 0, opacity being the alpha byte over 255.
Opaque(alpha) == alpha > 0

\* A faulty read that fails on every pixel.
GetPointValue_Fails(image, xn, xd, yn, yd) ==
  [ok |-> FALSE, alpha |-> 0, px |-> <<0, 0>>]

\* GetPointValue(x, y, NULL, &opacity) on the image, x = xn / xd and
\* y = yn / yd: false for a surface that is no image surface, a pixel outside
\* it or an unknown format.
GetPointValue(image, xn, xd, yn, yd) ==
  LET xi == Round(xn, xd)
      yi == Round(yn, yd)
  IN IF ~image.readable \/ xi < 0 \/ xi >= image.w \/ yi < 0 \/ yi >= image.h
     THEN [ok |-> FALSE, alpha |-> 0, px |-> <<xi, yi>>]
     ELSE [ok |-> TRUE, alpha |-> image.alpha[yi + 1][xi + 1],
           px |-> <<xi, yi>>]

\* The point of the image the element's point (x, y) shows, as the fractions
\* << xn, xd, yn, yd >>.  m is the answer of
\* MapStretchMiddleCoordDestToSrc.
MapToImage(x, y, imgw, imgh, pxwidth, pxheight, m) ==
  IF crop_ = "CROP_FALSE"
  THEN IF stretch_middle_
       THEN << m[1], 1, m[2], 1 >>
       ELSE << x * imgw, pxwidth, y * imgh, pxheight >>
  ELSE LET wide == pxwidth * imgh >= pxheight * imgw
           \* scale = scale_n / scale_d
           scale_n == IF wide THEN pxwidth ELSE pxheight
           scale_d == IF wide THEN imgw ELSE imgh
           \* w = w_n / scale_d, h = h_n / scale_d
           w_n == scale_n * imgw
           h_n == scale_n * imgh
           \* x0 = x0_n / (2 * scale_d), y0 = y0_n / (2 * scale_d)
           x0_n == pxwidth * scale_d - w_n
           y0_half == pxheight * scale_d - h_n
           y0_n == IF crop_ = "CROP_PHOTO" /\ y0_half < 0 THEN 0 ELSE y0_half
       IN << (2 * scale_d * x - x0_n) * imgw, 2 * w_n,
             (2 * scale_d * y - y0_n) * imgh, 2 * h_n >>

\* BasicElement::IsPointIn of the image element.
InElementBounds(x, y) ==
  /\ 0 <= x /\ x <= img_size[1]
  /\ 0 <= y /\ y <= img_size[2]

\* ImgElement::IsPointIn(x, y): its answer and the pixel it read.
ImgElement_IsPointIn(x, y, m) ==
  LET pxwidth == img_size[1]
      pxheight == img_size[2]
  IN IF ~InElementBounds(x, y)
     THEN [ret |-> FALSE, px |-> <<0, 0>>]
     ELSE IF image_ # Null /\ pxwidth > 0 /\ pxheight > 0
     THEN LET image == Images[image_]
              at == MapToImage(x, y, image.w, image.h, pxwidth, pxheight, m)
              value == GetPointValue(image, at[1], at[2], at[3], at[4])
          IN [ret |-> IF ~value.ok THEN TRUE ELSE Opaque(value.alpha),
              px |-> value.px]
     ELSE [ret |-> FALSE, px |-> <<0, 0>>]

\* What a call on the image element leaves alone; the process does not go
\* on after a call through a NULL pointer.
ImgOp ==
  /\ ~img_fault
  /\ UNCHANGED <<collection_vars, render_vars, factory_vars, alive, next_id,
                 frame, host_vars>>

\* SetSrc(src): the view loads the image, or none.
SetSrc(src) ==
  /\ image_' = src
  /\ src_size' = IF src # Null THEN <<Images[src].w, Images[src].h>>
                  ELSE <<0, 0>>
  /\ img_out' = NoImgOut
  /\ ImgOp
  /\ UNCHANGED <<crop_, stretch_middle_, img_size, colormultiply_, img_fault>>

\* The values the host gives the colorMultiply property.
Colors == {"", "#FF0000"}

\* SetColorMultiply calls image_->SetColorMultiply in both branches of its
\* test of the parsed color, whether or not an image is loaded.
CallsThroughNull_Never == FALSE
CallsThroughNull == image_ = Null

\* SetColorMultiply(color): nothing when the value is the current one.
SetColorMultiply(color) ==
  /\ color # colormultiply_
  /\ colormultiply_' = color
  /\ img_fault' = CallsThroughNull
  /\ img_out' = NoImgOut
  /\ ImgOp /\ UNCHANGED <<image_, crop_, stretch_middle_, img_size, src_size>>

SetCropMaintainAspect(crop) ==
  /\ crop # crop_
  /\ crop_' = crop
  /\ img_out' = NoImgOut
  /\ ImgOp
  /\ UNCHANGED <<image_, stretch_middle_, img_size, colormultiply_, src_size,
                 img_fault>>

SetStretchMiddle(stretch_middle) ==
  /\ stretch_middle # stretch_middle_
  /\ stretch_middle_' = stretch_middle
  /\ img_out' = NoImgOut
  /\ ImgOp
  /\ UNCHANGED <<image_, crop_, img_size, colormultiply_, src_size, img_fault>>

\* BasicElement::SetPixelWidth and SetPixelHeight of the image element.
SetImgSize(width, height) ==
  /\ img_size' = <<width, height>>
  /\ img_out' = NoImgOut
  /\ ImgOp
  /\ UNCHANGED <<image_, crop_, stretch_middle_, colormultiply_, src_size,
                 img_fault>>

\* A hit test of the image element.
CallIsPointIn(x, y, m) ==
  /\ LET got == ImgElement_IsPointIn(x, y, m)
     IN img_out' = [op |-> "IsPointIn", x |-> x, y |-> y, px |-> got.px,
                    ret |-> got.ret]
  /\ ImgOp
  /\ UNCHANGED <<image_, crop_, stretch_middle_, img_size, colormultiply_,
                 src_size, img_fault>>

ImgNext ==
  \/ \E src \in {Null} \cup ImgIds : SetSrc(src)
  \/ \E crop \in CropModes : SetCropMaintainAspect(crop)
  \/ \E b \in BOOLEAN : SetStretchMiddle(b)
  \/ \E width \in ImgSizes, height \in ImgSizes : SetImgSize(width, height)
  \/ \E x \in ImgPoints, y \in ImgPoints, m \in StretchTargets :
       CallIsPointIn(x, y, m)
  \/ \E color \in Colors : SetColorMultiply(color)

ImgSpec == Init /\ [][ImgNext]_vars

\* ------------------------------------------------------ the Qt view widget

\* The buttons of the mouse the model presses.
QtButtons == {"LeftButton", "RightButton"}

\* What view_->GetHitTest() may answer at a press.
HitTests == {"HT_CLIENT", "HT_BOTTOMRIGHT"}

\* What view_->OnMouseEvent answers to the widget, which only tests the
\* answer against EVENT_RESULT_UNHANDLED.
ViewAnswers == {EVENT_RESULT_UNHANDLED, EVENT_RESULT_HANDLED}

\* The longest run of events of one gesture the model follows.
MaxDelivered == 4

\* The hit tests of a press on a border or corner of the window, for which
\* an unhandled drag resizes the window instead of moving it.
ResizeHitTests == {"HT_LEFT", "HT_RIGHT", "HT_TOP", "HT_BOTTOM", "HT_TOPLEFT",
                   "HT_TOPRIGHT", "HT_BOTTOMLEFT", "HT_BOTTOMRIGHT"}

\* One call of the widget on the view: the event's type, its button or
\* buttons, the view's answer and the handler that sent it.
Sent(type, button, answer, by) ==
  [type |-> type, button |-> button, result |-> answer, by |-> by]

\* mouseMoveEvent: the movement is ignored while a button is held, no drag
\* has begun and the pointer is within kDragThreshold of the press.
TinyMovement(buttons, near) ==
  buttons # {} /\ ~mouse_drag_moved_ /\ near

\* mouseReleaseEvent returns at once when the gesture has become a drag of
\* the window.
ReleaseIgnored_Never == FALSE
ReleaseIgnored == mouse_drag_moved_

\* The click event of a release: MOUSE_CLICK for the left button,
\* MOUSE_RCLICK for any other.
ClickType(button) ==
  IF button = "LeftButton" THEN "MOUSE_CLICK" ELSE "MOUSE_RCLICK"

\* What a mouse handler of the widget leaves alone.
QtOp ==
  UNCHANGED <<collection_vars, render_vars, factory_vars, alive, next_id,
              frame, img_vars, split_out, extension_vars>>

\* mousePressEvent: focus, hit test, reset of the drag state, MOUSE_DOWN.
mousePressEvent(button, focused, hittest, answer) ==
  /\ button \notin qt_buttons
  /\ qt_buttons' = qt_buttons \cup {button}
  /\ mouse_down_hittest_' = hittest
  /\ mouse_drag_moved_' = FALSE
  /\ resize_drag_' = FALSE
  /\ delivered' =
       (IF focused THEN <<>> ELSE <<Sent("FOCUS_IN", {}, EVENT_RESULT_UNHANDLED,
                                 "press")>>)
       \o <<Sent("MOUSE_DOWN", {button}, answer, "press")>>
  /\ qt_last' = [handler |-> "press", button |-> button, did |-> "down"]
  /\ QtOp

\* mouseMoveEvent: MOUSE_MOVE unless the movement is tiny; when the view
\* leaves a move with a button held unhandled, the first such move sends the
\* fake MOUSE_UP and picks resize or move, and every such move resizes or
\* moves the window.
mouseMoveEvent(near, answer, up_answer) ==
  /\ Len(delivered) < MaxDelivered
  /\ IF TinyMovement(qt_buttons, near)
     THEN /\ qt_last' = [handler |-> "move", button |-> "none",
                         did |-> "ignored"]
          /\ UNCHANGED <<mouse_drag_moved_, resize_drag_, delivered>>
     ELSE LET move == Sent("MOUSE_MOVE", qt_buttons, answer, "move")
              up == Sent("MOUSE_UP", qt_buttons, up_answer, "move")
              drags == answer = EVENT_RESULT_UNHANDLED /\ qt_buttons # {}
              begins == drags /\ ~mouse_drag_moved_
              resizes == IF begins
                         THEN mouse_down_hittest_ \in ResizeHitTests
                         ELSE resize_drag_
          IN /\ delivered' = IF begins THEN delivered \o <<move, up>>
                             ELSE delivered \o <<move>>
             /\ mouse_drag_moved_' = (mouse_drag_moved_ \/ begins)
             /\ resize_drag_' = IF begins THEN resizes ELSE resize_drag_
             /\ qt_last' = [handler |-> "move", button |-> "none",
                            did |-> IF ~drags THEN "sent"
                                    ELSE IF resizes THEN "resize"
                                    ELSE "move"]
  /\ UNCHANGED <<qt_buttons, mouse_down_hittest_>>
  /\ QtOp

\* mouseReleaseEvent: nothing after a drag of the window, otherwise MOUSE_UP
\* and then the click event of the released button.
mouseReleaseEvent(button, up_answer, click_answer) ==
  /\ button \in qt_buttons
  /\ qt_buttons' = qt_buttons \ {button}
  /\ IF ReleaseIgnored
     THEN /\ qt_last' = [handler |-> "release", button |-> button,
                         did |-> "ignored"]
          /\ UNCHANGED delivered
     ELSE /\ delivered' = delivered \o
                <<Sent("MOUSE_UP", {button}, up_answer, "release"),
                  Sent(ClickType(button), {button}, click_answer, "release")>>
          /\ qt_last' = [handler |-> "release", button |-> button,
                         did |-> "click"]
  /\ UNCHANGED <<mouse_drag_moved_, resize_drag_, mouse_down_hittest_>>
  /\ QtOp

QtNext ==
  \/ \E button \in QtButtons, focused \in BOOLEAN, hittest \in HitTests,
        answer \in ViewAnswers :
       mousePressEvent(button, focused, hittest, answer)
  \/ \E near \in BOOLEAN, answer \in ViewAnswers, up_answer \in ViewAnswers :
       mouseMoveEvent(near, answer, up_answer)
  \/ \E button \in QtButtons, up_answer \in ViewAnswers,
        click_answer \in ViewAnswers :
       mouseReleaseEvent(button, up_answer, click_answer)

QtSpec == Init /\ [][QtNext]_vars

\* ------------------------------------------------------------ file paths

\* kDirSeparatorStr of a POSIX build, as a sequence of characters.
kDirSeparatorStr == <<"/">>

\* The characters of the paths the model splits, and their greatest length.
PathChars == {"/", "a", "b"}
MaxPathLen == 4

\* The paths the model splits: every string over PathChars, the empty one
\* included.
Paths == UNION {[1 .. n -> PathChars] : n \in 0 .. MaxPathLen}

\* strncmp(path + at, kDirSeparatorStr, sep_len) == 0, at counted from 0;
\* the comparison stops at the terminating NUL of path.
SepAt(path, at) ==
  LET sep_len == Len(kDirSeparatorStr)
  IN /\ at >= 0 /\ at + sep_len <= Len(path)
     /\ \A i \in 1 .. sep_len : path[at + i] = kDirSeparatorStr[i]

\* The loop `for (; last_sep != path; --last_sep)`: the offset at which it
\* stops and whether it found a separator there.
RECURSIVE ScanLastSep(_, _)
ScanLastSep(path, last_sep) ==
  IF last_sep = 0 THEN [has_sep |-> FALSE, last_sep |-> 0]
  ELSE IF SepAt(path, last_sep) THEN [has_sep |-> TRUE, last_sep |-> last_sep]
  ELSE ScanLastSep(path, last_sep - 1)

\* The loop over first_sep: back over the separators that precede last_sep.
RECURSIVE ScanFirstSep(_, _)
ScanFirstSep(path, first_sep) ==
  LET sep_len == Len(kDirSeparatorStr)
  IN IF first_sep - sep_len >= 0 /\ SepAt(path, first_sep - sep_len)
     THEN ScanFirstSep(path, first_sep - sep_len)
     ELSE first_sep

\* SplitFilePath(path, dir, filename); want_dir and want_filename say
\* whether the caller passes the output pointer.
SplitFilePath(path, want_dir, want_filename) ==
  LET len == Len(path)
      sep_len == Len(kDirSeparatorStr)
      untouched == [NoSplit EXCEPT !.path = path]
      cleared == [untouched EXCEPT !.dir_set = want_dir,
                                   !.filename_set = want_filename]
  IN IF len = 0 THEN untouched
     ELSE IF len < sep_len
     THEN [cleared EXCEPT !.filename = IF want_filename THEN path ELSE <<>>]
     ELSE LET scan == ScanLastSep(path, len - sep_len)
              first_sep == ScanFirstSep(path, scan.last_sep)
              rest == IF scan.has_sep THEN scan.last_sep + sep_len
                      ELSE scan.last_sep
          IN [cleared EXCEPT
                !.dir = IF scan.has_sep /\ want_dir
                        THEN SubSeq(path, 1, IF first_sep = 0 THEN sep_len
                                             ELSE first_sep)
                        ELSE <<>>,
                !.filename = IF want_filename /\ rest < len
                             THEN SubSeq(path, rest + 1, len)
                             ELSE <<>>,
                !.ret = (scan.has_sep /\ rest < len)]

\* A call of SplitFilePath by the host.
CallSplitFilePath(path, want_dir, want_filename) ==
  /\ split_out' = SplitFilePath(path, want_dir, want_filename)
  /\ UNCHANGED <<collection_vars, render_vars, factory_vars, alive, next_id,
                 frame, img_vars, widget_vars, extension_vars>>

PathNext ==
  \E path \in Paths, want_dir \in BOOLEAN, want_filename \in BOOLEAN :
    CallSplitFilePath(path, want_dir, want_filename)

PathSpec == Init /\ [][PathNext]_vars

\* ------------------------------------------------------ extension manager

\* The extension names the host asks for; Module's constructor finds a
\* loadable module for the names of ValidExtensions only.
ExtNames == {"a", "b", "bad"}
ValidExtensions == {"a", "b"}

\* The Module objects one run may create.
MaxModules == 4

\* Module::IsValid of the module made for a name.
IsValid(name) == name \in ValidExtensions

\* Module::MakeResident: the module is resident from then on.
MakeResident(module) == [module EXCEPT !.resident = TRUE]

\* extensions_.find(name_str): the modules stored under the name.
FindExtension_None(m, name) == {}
FindExtension(m, name) == {x \in extensions_[m] : x.name = name}

\* The modules of a manager after LoadExtension(name, resident) has found
\* the name loaded: the module is made resident when asked.
Reloaded(m, name, resident) ==
  {IF x.name = name /\ ~x.resident /\ resident THEN MakeResident(x) ELSE x :
     x \in extensions_[m]}

\* What a call on an extension manager leaves alone.
ExtOp ==
  UNCHANGED <<collection_vars, render_vars, factory_vars, alive, next_id,
              frame, img_vars, widget_vars, split_out>>

\* ExtensionManager::CreateExtensionManager.
CreateExtensionManager ==
  /\ \E m \in Managers \ (managers \cup destroyed) :
       /\ \A k \in Managers \ (managers \cup destroyed) : m <= k
       /\ managers' = managers \cup {m}
       /\ ext_out' = [NoExtOut EXCEPT !.op = "CreateExtensionManager",
                                      !.mgr = m, !.ret = TRUE]
  /\ UNCHANGED <<destroyed, extensions_, readonly_, global_manager_,
                 next_module>>
  /\ ExtOp

\* LoadExtension(name, resident) on manager m.
LoadExtension(m, name, resident) ==
  /\ m \in managers
  /\ LET found == FindExtension(m, name)
         made == [name |-> name, resident |-> resident, id |-> next_module]
         out == [op |-> "LoadExtension", mgr |-> m, name |-> name,
                 resident |-> resident, ret |-> FALSE]
     IN IF readonly_[m]
        THEN /\ ext_out' = out
             /\ UNCHANGED <<extensions_, next_module>>
        ELSE IF found # {}
        THEN /\ extensions_' = [extensions_ EXCEPT
                                  ![m] = Reloaded(m, name, resident)]
             /\ ext_out' = [out EXCEPT !.ret = TRUE]
             /\ UNCHANGED next_module
        ELSE /\ next_module <= MaxModules
             /\ next_module' = next_module + 1
             /\ IF IsValid(name)
                THEN /\ extensions_' = [extensions_ EXCEPT
                                          ![m] = @ \cup {made}]
                     /\ ext_out' = [out EXCEPT !.ret = TRUE]
                ELSE /\ ext_out' = out
                     /\ UNCHANGED extensions_
  /\ UNCHANGED <<managers, destroyed, readonly_, global_manager_>>
  /\ ExtOp

\* UnloadExtension(name) on manager m.
UnloadExtension(m, name) ==
  /\ m \in managers
  /\ LET found == FindExtension(m, name)
         out == [op |-> "UnloadExtension", mgr |-> m, name |-> name,
                 resident |-> FALSE, ret |-> FALSE]
     IN IF readonly_[m] \/ found = {} \/ \E x \in found : x.resident
        THEN /\ ext_out' = out
             /\ UNCHANGED extensions_
        ELSE /\ extensions_' = [extensions_ EXCEPT ![m] = @ \ found]
             /\ ext_out' = [out EXCEPT !.ret = TRUE]
  /\ UNCHANGED <<managers, destroyed, readonly_, global_manager_, next_module>>
  /\ ExtOp

\* MarkAsGlobal on manager m: what it makes of the manager's modules.
MarkAsGlobal_AsIs(m) == extensions_[m]
MarkAsGlobal(m) == {MakeResident(x) : x \in extensions_[m]}

\* The test of SetGlobalExtensionManager: `!global_manager_ && manager`.
CanSetGlobal_AnyTime(manager) == manager # Null
CanSetGlobal(manager) == global_manager_ = Null /\ manager # Null

\* ExtensionManager::SetGlobalExtensionManager(manager); manager is Null or
\* a manager that exists.
SetGlobalExtensionManager(manager) ==
  /\ manager \in {Null} \cup managers
  /\ LET out == [NoExtOut EXCEPT !.op = "SetGlobalExtensionManager",
                                 !.mgr = manager]
     IN IF CanSetGlobal(manager)
        THEN /\ global_manager_' = manager
             /\ extensions_' = [extensions_ EXCEPT
                                  ![manager] = MarkAsGlobal(manager)]
             /\ readonly_' = [readonly_ EXCEPT ![manager] = TRUE]
             /\ ext_out' = [out EXCEPT !.ret = TRUE]
        ELSE /\ ext_out' = out
             /\ UNCHANGED <<global_manager_, extensions_, readonly_>>
  /\ UNCHANGED <<managers, destroyed, next_module>>
  /\ ExtOp

\* ExtensionManager::Destroy on `this`, which is Null or a manager that
\* exists; the destructor of Impl deletes the manager's modules.
Destroy(this) ==
  /\ this \in {Null} \cup managers
  /\ LET out == [NoExtOut EXCEPT !.op = "Destroy", !.mgr = this]
     IN IF this # Null /\ this # global_manager_
        THEN /\ managers' = managers \ {this}
             /\ destroyed' = destroyed \cup {this}
             /\ extensions_' = [extensions_ EXCEPT ![this] = {}]
             /\ ext_out' = [out EXCEPT !.ret = TRUE]
        ELSE /\ ext_out' = out
             /\ UNCHANGED <<managers, destroyed, extensions_>>
  /\ UNCHANGED <<readonly_, global_manager_, next_module>>
  /\ ExtOp

ExtNext ==
  \/ CreateExtensionManager
  \/ \E m \in Managers, name \in ExtNames, resident \in BOOLEAN :
       LoadExtension(m, name, resident)
  \/ \E m \in Managers, name \in ExtNames : UnloadExtension(m, name)
  \/ \E manager \in {Null} \cup Managers : SetGlobalExtensionManager(manager)
  \/ \E this \in {Null} \cup Managers : Destroy(this)

ExtSpec == Init /\ [][ExtNext]_vars

\* ------------------------------------------------------------- properties

\* Vocabulary of the properties below.
Log == 1 .. Len(calls)
InPass == pc \in {"loop", "call", "done", "crashed"}
SnapPos(e) == Find(snap, e)
IsRet(k) == calls[k].op = "ret"
IsCall(k) == calls[k].op = "call"
IsTest(k) == calls[k].op = "IsPointIn"

\* The point (px, py) of the collection's space lies inside child c as it is
\* composited: some point of c's box lands on it.
InsideOf(c, px, py) ==
  \E cx \in 0 .. geom[c].w, cy \in 0 .. geom[c].h :
    ChildCoordToParentCoord(c, cx, cy) = <<px, py>>

\* The event of the pass arrived at a point inside child c.
EventIn(c) == InsideOf(c, event.x, event.y)

\* C1: while a dispatch pass is running, a handler that destroys elements of
\* the same collection (the child being dispatched to, a sibling, or the owner
\* of the collection) never makes the pass advance an iterator that the
\* removal invalidated, and never makes it read an element that was destroyed.
C1_PassNeverUsesInvalidated ==
  /\ ~ub_iter
  /\ \A k \in Log :
       /\ calls[k].op # "deref"
       /\ (IsTest(k) \/ IsCall(k)) => calls[k].live

\* C2: when the child being dispatched to is destroyed during its own mouse
\* handler, the pass returns at once with the result that handler returned,
\* leaves *in_element as it was and makes no further call on any child.
C2_MouseSelfDestroyReturns ==
  [][ (pc = "call" /\ kind = "mouse" /\ pc' # "call"
         /\ calls[Len(calls)].live /\ Called \notin alive)
      => /\ pc' = "done"
         /\ Len(calls') = Len(calls) + 1
         /\ calls'[Len(calls')].op = "ret"
         /\ calls'[Len(calls')].el = Called
         /\ result' = calls'[Len(calls')].result
         /\ in_element' = in_element ]_vars

C2_Witness ==
  /\ pc = "done" /\ kind = "mouse" /\ calls # <<>>
  /\ IsRet(Len(calls)) /\ ~calls[Len(calls)].live
  /\ calls[Len(calls)].result = EVENT_RESULT_HANDLED
  /\ \E b \in alive :
       /\ SnapPos(b) < SnapPos(calls[Len(calls)].el)
       /\ IsVisible(b) /\ EventIn(b)
       /\ \A k \in Log : calls[k].el # b

\* C3: the drag pass visits children topmost first, skips invisible children,
\* calls a child's handler only when the mapped point is inside it, stops at
\* the first call that reports a fired element, and returns the handler's
\* result without a further call when the child was destroyed in its handler.
C3_DragFollowsMouseRules ==
  (kind = "drag" /\ InPass) =>
    /\ \A k \in Log :
         (IsTest(k) /\ calls[k].live) =>
           \A b \in calls[k].others :
             (SnapPos(b) > SnapPos(calls[k].el) /\ IsVisible(b)) =>
               \E j \in 1 .. (k - 1) : IsTest(j) /\ calls[j].el = b
    /\ \A k \in Log : (IsTest(k) \/ IsCall(k)) => IsVisible(calls[k].el)
    /\ \A k \in Log :
         IsCall(k) =>
           /\ k > 1 /\ IsTest(k - 1) /\ calls[k - 1].ok
           /\ calls[k - 1].el = calls[k].el
           /\ IsPointIn(calls[k].el, calls[k].x, calls[k].y)
    /\ \A k \in Log :
         (IsRet(k) /\ (calls[k].fired # Null
                        \/ (calls[k - 1].live /\ ~calls[k].live))) =>
           /\ k = Len(calls)
           /\ pc = "done"
           /\ result = calls[k].result
           /\ fired_element = calls[k].fired
    /\ in_element = Null

C3_Witness ==
  /\ pc = "done" /\ kind = "drag" /\ calls # <<>>
  /\ IsRet(Len(calls)) /\ ~calls[Len(calls)].live
  /\ calls[Len(calls)].fired = Null
  /\ \E b \in alive :
       /\ SnapPos(b) < SnapPos(calls[Len(calls)].el)
       /\ IsVisible(b) /\ EventIn(b)
       /\ \A k \in Log : calls[k].el # b
  /\ \E h \in hidden : SnapPos(h) > SnapPos(calls[Len(calls)].el) /\ EventIn(h)

\* C4: after a child removed itself inside its mouse-down handler, the
\* mouse-up at the same point is offered only to the children that remain
\* and the pass does not fail on account of the removed child.
C4_UpAfterSelfRemoval ==
  prev # NoPrev =>
    /\ \A k \in Log : calls[k].el \notin prev.gone
    /\ \A i \in 1 .. Len(snap) : snap[i] \notin prev.gone
    /\ pc = "crashed" => ~ite_valid

C4_Witness ==
  /\ prev # NoPrev /\ pc = "done" /\ event.type = "MOUSE_UP"
  /\ \E k \in Log : IsRet(k) /\ calls[k].live /\ calls[k].el \in alive
  /\ ~ub_iter

C6_StopsAtFirstFired ==
  (kind = "mouse" /\ InPass) =>
    \A k \in Log :
      (IsRet(k) /\ calls[k].fired # Null) =>
        /\ k = Len(calls)
        /\ pc = "done"
        /\ result = calls[k].result
        /\ fired_element = calls[k].fired

C6_Witness ==
  /\ kind = "mouse" /\ pc = "done" /\ calls # <<>>
  /\ IsRet(Len(calls)) /\ calls[Len(calls)].fired # Null /\ calls[Len(calls)].live
  /\ \E b \in alive :
       /\ SnapPos(b) < SnapPos(calls[Len(calls)].el)
       /\ IsVisible(b) /\ EventIn(b)
       /\ \A k \in Log : calls[k].el # b

\* C7: a mouse pass in which no call reported a fired element or a result
\* other than UNHANDLED (in particular one in which no child contains the
\* point) returns UNHANDLED with *fired_element NULL.
C7_UnhandledWhenNothingFired ==
  (kind = "mouse" /\ pc = "done"
     /\ \A k \in Log :
          IsRet(k) => (calls[k].fired = Null
                       /\ calls[k].result = EVENT_RESULT_UNHANDLED)) =>
    /\ result = EVENT_RESULT_UNHANDLED
    /\ fired_element = Null

C7_Witness ==
  /\ kind = "mouse" /\ pc = "done" /\ ~ub_iter
  /\ result = EVENT_RESULT_UNHANDLED /\ fired_element = Null
  /\ \E k \in Log : IsRet(k) /\ calls[k].live
  /\ \E k \in Log : IsTest(k) /\ ~calls[k].ok
  /\ \A k \in Log : IsRet(k) => calls[k].fired = Null

\* C8: a child whose visibility flag is false is never hit-tested, never has
\* its handler called and never becomes *in_element or *fired_element, in
\* mouse and in drag passes, and the visible children below it are still
\* looked at.
C8_InvisibleSkipped ==
  InPass =>
    /\ \A k \in Log : calls[k].op # "deref" => calls[k].el \notin hidden
    /\ Base(in_element) \notin hidden
    /\ Base(fired_element) \notin hidden
    /\ (pc = "done" /\ ~ub_iter /\ (calls = <<>> \/ ~IsRet(Len(calls)))) =>
         \A i \in 1 .. Len(snap) :
           (snap[i] \in alive /\ IsVisible(snap[i])) =>
             \E k \in Log : IsTest(k) /\ calls[k].el = snap[i]

C8_Witness ==
  /\ pc = "done" /\ kind = "mouse"
  /\ \E h \in hidden, b \in alive :
       /\ SnapPos(h) <= Len(snap) /\ h \in alive
       /\ SnapPos(b) < SnapPos(h)
       /\ EventIn(h)
       /\ \E k \in Log : IsCall(k) /\ calls[k].el = b

\* C9: the position a child is hit-tested with, and the position of the event
\* its handler receives, are the original event's position expressed in that
\* child's own space; the handler is called only when that position is
\* inside the child; the event's type reaches the child unchanged.
C9_ChildLocalCoordinates ==
  InPass =>
    \A k \in Log :
      (IsTest(k) \/ IsCall(k)) =>
        /\ ChildCoordToParentCoord(calls[k].el, calls[k].x, calls[k].y)
             = <<event.x, event.y>>
        /\ calls[k].type = event.type
        /\ IsTest(k) => (calls[k].ok <=> IsPointIn(calls[k].el, calls[k].x, calls[k].y))
        /\ IsCall(k) =>
             /\ k > 1 /\ IsTest(k - 1) /\ calls[k - 1].ok
             /\ calls[k - 1].el = calls[k].el
             /\ calls[k - 1].x = calls[k].x /\ calls[k - 1].y = calls[k].y

C9_Witness ==
  /\ pc = "done" /\ ~ub_iter
  /\ \E j, k \in Log :
       /\ j < k /\ IsCall(j) /\ IsCall(k)
       /\ calls[j].el # calls[k].el
       /\ <<calls[j].x, calls[j].y>> # <<calls[k].x, calls[k].y>>
       /\ <<calls[j].x, calls[j].y>> # <<event.x, event.y>>

\* A string with its upper-case letters replaced by the lower-case ones.
Folded(str) ==
  [k \in 1 .. Len(str) |->
     IF \E i \in 1 .. 26 : Upper[i] = str[k]
     THEN Lower[CHOOSE i \in 1 .. 26 : Upper[i] = str[k]]
     ELSE str[k]]

\* Two names are the same up to the case of their letters.
SameFolded(s1, s2) == Folded(s1) = Folded(s2)

\* The indexes of the children whose name is name up to letter case.
Named(name) ==
  {i \in 0 .. (GetCount - 1) : SameFolded(GetName(children_[i + 1]), name)}

\* C11: GetItemByName(name) is the child of lowest index whose name equals
\* name up to letter case, and NULL when there is none, when the collection
\* is empty and when name is NULL or empty.
C11_FirstNamedChild ==
  \A name \in LookupNames :
    IF name = NullStr \/ name = <<>> \/ Named(name) = {}
    THEN GetItemByName(name) = Null
    ELSE \E i \in Named(name) :
           /\ \A j \in Named(name) : i <= j
           /\ GetItemByName(name) = GetItemByIndex(i)

C11_Witness ==
  /\ GetCount = 3
  /\ GetItemByIndex(0) = 2 /\ GetItemByIndex(1) = 3 /\ GetItemByIndex(2) = 1
  /\ last_op = "GetItemByName" /\ ret = 2
  /\ GetItemByName(<<"T", "O", "P">>) = 2
  /\ GetItemByName(<<>>) = Null

\* The collection's content and flag, as its accessors and fields show them.
Content == [i \in 0 .. (GetCount - 1) |-> GetItemByIndex(i)]

\* A step left the children, their count and the count-changed flag alone.
CollectionUntouched ==
  /\ GetCount' = GetCount
  /\ Content' = Content
  /\ count_changed_' = count_changed_

\* C12: when the view's OnElementAdd answers false for a newly created
\* element, AppendElement and InsertElement destroy that element and return
\* NULL, and the children, their order, their count and the count-changed
\* flag are as before the call.
C12_VetoLeavesCollection ==
  [][ \A t \in TagNames, b \in {Null} \cup ElemIds :
        ((AppendElement(t, FALSE) \/ InsertElement(t, b, FALSE))
           /\ FactoryCreates(t)) =>
          /\ ret' = Null
          /\ CollectionUntouched
          /\ Len(hooks') = 1
          /\ hooks'[1].hook = "OnElementAdd" /\ hooks'[1].live
          /\ hooks'[1].el \notin alive'
          /\ deleted'[hooks'[1].el] = 1
          /\ \A e \in ElemIds \ {hooks'[1].el} : deleted'[e] = deleted[e]
          /\ alive' = alive ]_vars

C12_Witness ==
  /\ last_op \in {"AppendElement", "InsertElement"}
  /\ ret = Null /\ hooks # NoHooks
  /\ ~count_changed_
  /\ GetCount = 2
  /\ deleted[hooks[1].el] = 1

\* C13: when the factory has no creator for the tag name, AppendElement and
\* InsertElement return NULL and nothing else happens: OnElementAdd is not
\* called, nothing is created or destroyed, the children and the
\* count-changed flag are unchanged and the collection stays usable.
C13_UnknownTagIsHarmless ==
  [][ \A t \in TagNames, b \in {Null} \cup ElemIds, a \in BOOLEAN :
        ((AppendElement(t, a) \/ InsertElement(t, b, a))
           /\ ~FactoryCreates(t)) =>
          /\ ret' = Null
          /\ hooks' = NoHooks
          /\ CollectionUntouched
          /\ alive' = alive /\ deleted' = deleted /\ next_id' = next_id
          /\ impl_alive' /\ pc' = "idle" ]_vars

C13_Witness ==
  /\ last_op \in {"AppendElement", "InsertElement"}
  /\ ret = Null /\ hooks = NoHooks
  /\ ~count_changed_
  /\ GetCount = 2 /\ next_id <= MaxElems

\* The children by index, as GetItemByIndex reports them.
Items == [i \in 0 .. (GetCount - 1) |-> GetItemByIndex(i)]
IsChild(e) == \E i \in 0 .. (GetCount - 1) : GetItemByIndex(i) = e

\* The collection after a step holds the element e at index k and, around
\* it, the children it held before in the order they had.
PlacedAt(e, k) ==
  /\ GetCount' = GetCount + 1
  /\ Items'[k] = e
  /\ \A i \in 0 .. (k - 1) : Items'[i] = Items[i]
  /\ \A i \in k .. (GetCount - 1) : Items'[i + 1] = Items[i]

\* C10: a successful AppendElement puts the new element at the last index;
\* a successful InsertElement puts it at the index `before` had, and at the
\* last index when `before` is NULL or not a child; the children the
\* collection already held keep their relative order in both.
C10_ZOrderOfCreation ==
  [][ /\ \A t \in TagNames, a \in BOOLEAN :
           (AppendElement(t, a) /\ ret' # Null) => PlacedAt(ret', GetCount)
      /\ \A t \in TagNames, b \in {Null} \cup ElemIds, a \in BOOLEAN :
           (InsertElement(t, b, a) /\ ret' # Null) =>
             IF IsChild(b)
             THEN \E k \in 0 .. (GetCount - 1) : Items[k] = b /\ PlacedAt(ret', k)
             ELSE PlacedAt(ret', GetCount) ]_vars

C10_Witness ==
  /\ pc = "idle" /\ GetCount = 3
  /\ ret = 3 /\ 3 \in alive
  /\ GetItemByIndex(0) = 3 \/ GetItemByIndex(1) = 3

\* The registered tag names that equal the tag up to the case of letters.
KnownAs(tag) == {u \in asked : SameFolded(u, tag)}

\* The tag was not registered itself, but a tag that differs from it in
\* letter case only was.
CaseVariantOfRegistered(tag) ==
  /\ tag \notin asked
  /\ KnownAs(tag) # {}

\* The element a CreateElement has just returned is a new one.
NewElement(e) == e = next_id - 1 /\ e \in alive

OthersKept(tag) ==
  \A u \in FactoryTags \ {tag} :
    /\ (u \in DOMAIN creators_') = (u \in DOMAIN creators_)
    /\ u \in DOMAIN creators_ => creators_'[u] = creators_[u]

Pointers == {Null, ForeignElem} \cup ElemIds

\* C17: RemoveElement of an element that is not a child of the collection
\* (NULL, a child of another collection, an element removed before) returns
\* false, calls no OnElementRemove, destroys nothing and leaves the children
\* and the count-changed flag as they were.
C17_RemoveOfNonChild ==
  [][ \A e \in Pointers :
        (RemoveElement(e) /\ ~IsChild(e)) =>
          /\ ret' = 0
          /\ hooks' = NoHooks
          /\ deleted' = deleted /\ alive' = alive
          /\ CollectionUntouched ]_vars

C17_Witness ==
  /\ last_op = "RemoveElement" /\ ret = 0
  /\ hooks = NoHooks
  /\ ~count_changed_
  /\ GetCount = 2 /\ deleted[1] = 1

\* The children after a step are those before it without the one at index
\* k, in the order they had.
TakenAt(k) ==
  /\ GetCount' = GetCount - 1
  /\ \A i \in 0 .. (k - 1) : Items'[i] = Items[i]
  /\ \A i \in (k + 1) .. (GetCount - 1) : Items'[i - 1] = Items[i]

\* What the accessors return is NULL or an element that was not destroyed.
AccessorsReturnLive ==
  /\ \A i \in (0 - 1) .. MaxElems :
       GetItemByIndex(i) # Null => deleted[GetItemByIndex(i)] = 0
  /\ \A n \in LookupNames :
       GetItemByName(n) # Null => deleted[GetItemByName(n)] = 0

\* C18: RemoveElement of a child calls OnElementRemove for it exactly once,
\* while it is alive, destroys it and erases it; it returns true and sets
\* the count-changed flag, the other children keep their order, and no
\* accessor returns the element afterwards (the accessors never return a
\* destroyed element).
C18_RemoveOfChild ==
  /\ []AccessorsReturnLive
  /\ [][ \A e \in Pointers :
           (RemoveElement(e) /\ IsChild(e)) =>
             /\ Len(hooks') = 1
             /\ hooks'[1].hook = "OnElementRemove"
             /\ hooks'[1].el = e /\ hooks'[1].live
             /\ deleted' = [d \in ElemIds |->
                              IF d = e THEN deleted[d] + 1 ELSE deleted[d]]
             /\ deleted'[e] = 1
             /\ alive' = alive \ {e}
             /\ ret' = 1
             /\ count_changed_'
             /\ \E k \in 0 .. (GetCount - 1) : Items[k] = e /\ TakenAt(k)
             /\ \A i \in 0 .. (GetCount - 1) : GetItemByIndex(i)' # e ]_vars

C18_Witness ==
  /\ last_op = "RemoveElement" /\ ret = 1
  /\ Len(hooks) = 1 /\ hooks[1].el = 2 /\ hooks[1].live
  /\ GetCount = 2
  /\ GetItemByIndex(0) = 1 /\ GetItemByIndex(1) = 3
  /\ deleted[2] = 1

\* C19: RemoveAllElements calls OnElementRemove for every child, in z-order
\* and exactly once, each while it is alive, and destroys each exactly once;
\* afterwards the collection is empty and the count-changed flag is set; on
\* an empty collection no hook is called.
C19_RemoveAll ==
  [][ RemoveAllElements =>
        /\ Len(hooks') = GetCount
        /\ \A i \in 0 .. (GetCount - 1) :
             /\ hooks'[i + 1].hook = "OnElementRemove"
             /\ hooks'[i + 1].el = GetItemByIndex(i)
             /\ hooks'[i + 1].live
        /\ deleted' = [d \in ElemIds |->
                         IF IsChild(d) THEN deleted[d] + 1 ELSE deleted[d]]
        /\ \A d \in ElemIds : IsChild(d) => deleted'[d] = 1 /\ d \notin alive'
        /\ GetCount' = 0
        /\ count_changed_'
        /\ GetCount = 0 => hooks' = NoHooks ]_vars

C19_Witness ==
  /\ last_op = "RemoveAllElements"
  /\ GetCount = 0 /\ count_changed_
  /\ Len(hooks) = 2
  /\ hooks[1].el = 3 /\ hooks[2].el = 1
  /\ deleted = [d \in ElemIds |-> 1]

\* The elements ElementFactory has made for the collection so far.
Created == {e \in ElemIds : e < next_id}

\* C20: every element created for the collection is destroyed exactly once:
\* an element is destroyed when it is vetoed at creation, when it is removed
\* and when the collection is destroyed, and never twice; an element that
\* was not destroyed is a child, a destroyed one is not, and after the
\* collection's destruction every created element has been destroyed.
C20_Ownership ==
  /\ \A e \in ElemIds : deleted[e] <= 1
  /\ \A e \in Created : (deleted[e] = 1) = (e \notin alive)
  /\ \A e \in ElemIds \ Created : deleted[e] = 0 /\ e \notin alive
  /\ \A e \in alive : \E i \in 1 .. Len(children_) : children_[i] = e
  /\ \A i \in 1 .. Len(children_) : children_[i] \in alive
  /\ ~impl_alive => \A e \in Created : deleted[e] = 1

C20_Witness ==
  /\ ~impl_alive /\ pc = "idle"
  /\ next_id = MaxElems + 1
  /\ deleted = [d \in ElemIds |-> 1]
  /\ last_op = "~Impl" /\ Len(hooks) = 1

\* The last operation was a Draw that came right after another Draw.
SecondDraw == last_op = "Draw" /\ frame.quiet = 2

\* C21: the second of two Draws in a row reports changed = false and
\* neither destroys nor allocates a canvas.
C21_SecondDrawIsQuiet ==
  SecondDraw => ~frame.changed /\ ~frame.created /\ ~frame.destroyed

\* One of the children is the view's popup element.
PopupChild == popup # Null /\ IsChild(popup)

\* C29: after a Draw that reached the child loop, has_popup_ is true
\* exactly when one of the children is the view's popup element, and the
\* flag forced changed = true in that Draw exactly when this differs from
\* what the flag held before.
C29_HasPopupTracksPopupChild ==
  (last_op = "Draw" /\ frame.reached) =>
    /\ has_popup_ = PopupChild
    /\ frame.flipped = (frame.had_popup # PopupChild)

\* The flags of the children that were dirty when the last Draw began and
\* are dirty still.
StillDirty(s) == s \cap (position_changed \cup size_changed)

\* C22 as stated: after a child's position or size changed, the very next
\* Draw reports changed = true and re-runs the compositing, and on return the
\* child's dirty flags are cleared.
C22_DirtyChildRedrawn ==
  (last_op = "Draw" /\ frame.dirty # {}) =>
    /\ frame.changed
    /\ frame.composited
    /\ StillDirty(frame.dirty) = {}

\* C22 amended: after the position or size of a child that is not the view's
\* popup element changed, the very next Draw reports changed = true; when
\* that Draw returns a canvas it has re-run the compositing and on return
\* that child's dirty flags are cleared.
C22_DirtyChildRecomposited ==
  (last_op = "Draw" /\ frame.dirty \ {popup} # {}) =>
    /\ frame.changed
    /\ frame.canvas # NoCanvas =>
         /\ frame.composited
         /\ StillDirty(frame.dirty \ {popup}) = {}

\* A Draw that reuses the cached canvas and recomposites it because a child
\* was moved or resized since the Draw before.
C22_Witness ==
  /\ last_op = "Draw"
  /\ frame.dirty \ {popup} # {}
  /\ frame.canvas # NoCanvas
  /\ ~frame.created
  /\ frame.composited
  /\ shifted \cup grown # {}

\* The step is a successful AppendElement, InsertElement, RemoveElement or
\* RemoveAllElements.
CountChanges ==
  \/ last_op' \in {"AppendElement", "InsertElement"} /\ ret' # Null
  \/ last_op' = "RemoveElement" /\ ret' = 1
  \/ last_op' = "RemoveAllElements"

\* C23: a new collection has the count-changed flag set; every successful
\* AppendElement, InsertElement, RemoveElement and RemoveAllElements sets it;
\* it stays set until a Draw; the Draw that finds it set reports changed = true,
\* whether it returns a canvas or null, and clears it; nothing else clears it.
C23_CountInvalidation ==
  /\ count_changed_ = TRUE
  /\ [][/\ CountChanges => count_changed_'
        /\ last_op' = "Draw" =>
             /\ ~count_changed_'
             /\ count_changed_ => frame'.changed
        /\ (count_changed_ /\ ~count_changed_') => last_op' = "Draw"]_vars

\* The Draw after RemoveAllElements emptied a drawn collection: it returns
\* null, reports changed = true and leaves the flag cleared.
C23_Witness ==
  /\ last_op = "Draw"
  /\ GetCount = 0
  /\ next_id > 1
  /\ frame.changed
  /\ frame.canvas = NoCanvas
  /\ ~count_changed_

\* C24: Draw on a collection with no children returns null at once: it
\* visits no child, composites nothing, and neither creates nor destroys a
\* canvas; a canvas cached earlier stays as it is.
C24_EmptyDrawsNothing ==
  /\ [](last_op = "Draw" /\ GetCount = 0 =>
          /\ frame.canvas = NoCanvas
          /\ ~frame.created /\ ~frame.destroyed
          /\ ~frame.reached /\ ~frame.composited
          /\ frame.visited = <<>> /\ frame.painted = <<>>)
  /\ [][last_op' = "Draw" /\ Len(children_) = 0 => canvas_' = canvas_]_vars

\* A Draw of a collection emptied after it was drawn: the canvas cached then
\* is still held, and nothing is reported changed.
C24_Witness ==
  /\ last_op = "Draw"
  /\ GetCount = 0
  /\ canvas_ # NoCanvas
  /\ ~frame.changed

\* The children other than the view's popup element, in their order.
NotPopup(e) == e # popup
Others == SelectSeq(children_, NotPopup)
OtherSet == {Others[i] : i \in 1 .. Len(Others)}

\* C25: a Draw that reaches the child loop invokes Draw on exactly the
\* children other than the view's popup element, in their order, and paints
\* only children it drew; the popup child is neither drawn nor painted and
\* its position-changed and size-changed flags are as they were, while the
\* position-changed flag of every other child is consumed.
C25_PopupSkipped ==
  /\ [](last_op = "Draw" /\ frame.reached =>
          /\ frame.visited = Others
          /\ \A i \in 1 .. Len(frame.painted) :
               frame.painted[i] # popup /\ frame.painted[i] \in OtherSet
          /\ OtherSet \cap position_changed = {})
  /\ [][last_op' = "Draw" =>
          /\ popup \in position_changed' <=> popup \in position_changed
          /\ popup \in size_changed' <=> popup \in size_changed]_vars

\* A Draw of two children, one the popup with its position changed: the
\* other alone is drawn and painted, the popup's flag is still set.
C25_Witness ==
  /\ last_op = "Draw"
  /\ frame.reached
  /\ PopupChild
  /\ popup \in position_changed
  /\ GetCount = 2
  /\ Len(frame.visited) = 1
  /\ frame.painted = frame.visited

\* The rightmost and the lowest coordinate the box of the child c reaches in
\* the collection.
BoxOf(c) ==
  GetChildExtentInParent(GetPixelX(c), GetPixelY(c), GetPixelPinX(c),
                         GetPixelPinY(c), GetPixelWidth(c), GetPixelHeight(c),
                         GetRotation(c))

\* The bounding extent of the current children: 0 x 0 with none.
BoundingExtent ==
  LET boxes == {BoxOf(children_[i]) : i \in 1 .. Len(children_)}
      rights == {0} \cup {b[1] : b \in boxes}
      lows == {0} \cup {b[2] : b \in boxes}
  IN << CHOOSE r \in rights : \A o \in rights : o <= r,
        CHOOSE l \in lows : \A o \in lows : o <= l >>

\* The canvas-extent rule for the current configuration.
ExtentRule ==
  IF scrollable_ THEN BoundingExtent
  ELSE IF owner_ # Null
       THEN << Px(Ceil(OwnerPixelWidth)), Px(Ceil(OwnerPixelHeight)) >>
       ELSE << Px(ViewWidth), Px(ViewHeight) >>

\* C26: after every Layout the extent of the collection is the one the
\* canvas-extent rule gives for its current configuration: scrollable, the
\* bounding extent of its current children; otherwise the owner's pixel size
\* rounded up, or the view's size when the view owns it.
C26_ExtentFollowsRule ==
  last_op = "Layout" => << width_, height_ >> = ExtentRule

\* The canvas the last Draw returned is the cached one and has the
\* dimensions (ceil(width), ceil(height)) of the extent, both non-zero.
ReturnedCanvasFits ==
  frame.canvas # NoCanvas =>
    /\ frame.canvas = canvas_
    /\ frame.canvas = [w |-> Ceil(width_), h |-> Ceil(height_)]
    /\ frame.canvas.w > 0 /\ frame.canvas.h > 0

\* The extent has a zero dimension, or the last Draw asked for a canvas and
\* got none.
NoCanvasToHave ==
  Ceil(width_) = 0 \/ Ceil(height_) = 0 \/ frame.alloc_failed

\* The last Draw returned null, left no canvas cached and reported a change.
GaveUp == frame.canvas = NoCanvas /\ canvas_ = NoCanvas /\ frame.changed

\* C30 as stated: a canvas Draw returns has the dimensions (ceil(width),
\* ceil(height)) of the current extent, both non-zero; when the extent has a
\* zero dimension or the allocation fails, Draw returns null, holds no cached
\* canvas afterwards and reports changed = true.
C30_CanvasFitsOrNone ==
  last_op = "Draw" => ReturnedCanvasFits /\ (NoCanvasToHave => GaveUp)

\* C30 amended: the second half is claimed of a collection with at least
\* one child.
C30_CanvasFitsOrNoneWithChildren ==
  last_op = "Draw" =>
    ReturnedCanvasFits /\ (GetCount > 0 /\ NoCanvasToHave => GaveUp)

\* A Draw with children that destroyed the cached canvas and could not
\* allocate the one of the new size.
C30_Witness ==
  /\ last_op = "Draw"
  /\ GetCount > 0
  /\ frame.alloc_failed
  /\ frame.destroyed
  /\ GaveUp

\* The sequence s runs through children of the collection from back to
\* front, none twice.
BackToFront(s) ==
  \A i, j \in 1 .. Len(s) :
    i < j => Find(children_, s[i]) < Find(children_, s[j])

\* Layout called the Layout of every child once, in forward z-order.
LayoutInOrder == last_op = "Layout" => frame.visited = children_

\* Draw called the Draw of every child but the popup once, in forward
\* z-order, and painted the canvases it got from back to front.
DrawInOrder ==
  (last_op = "Draw" /\ frame.reached) =>
    /\ frame.visited = Others
    /\ BackToFront(frame.visited)
    /\ BackToFront(frame.painted)
    /\ \A i \in 1 .. Len(frame.painted) :
         \E j \in 1 .. Len(frame.visited) : frame.visited[j] = frame.painted[i]

\* The hit tests of a dispatch pass go through the children from front to
\* back, none twice.
HitTestsInReverse ==
  InPass =>
    \A i, j \in Log :
      (i < j /\ IsTest(i) /\ IsTest(j)) =>
        SnapPos(calls[i].el) > SnapPos(calls[j].el)

\* C27: Layout calls each child's Layout once in forward z-order; Draw calls
\* each non-popup child's Draw once in forward z-order and composites the
\* canvases in that order; a dispatch pass hit-tests the children in reverse
\* z-order.
C27_VisitingOrder == LayoutInOrder /\ DrawInOrder /\ HitTestsInReverse

\* The last hit test of the image element was at a point of its box.
AskedInside ==
  /\ 0 <= img_out.x /\ img_out.x <= img_size[1]
  /\ 0 <= img_out.y /\ img_out.y <= img_size[2]

\* The element shows an image on a box of positive size.
ShowsImage == image_ # Null /\ img_size[1] > 0 /\ img_size[2] > 0

\* The pixel the last hit test mapped its point to can be read, and its
\* alpha byte.
PixelReadable ==
  /\ Images[image_].readable
  /\ img_out.px[1] \in 0 .. (Images[image_].w - 1)
  /\ img_out.px[2] \in 0 .. (Images[image_].h - 1)
PixelAlpha == Images[image_].alpha[img_out.px[2] + 1][img_out.px[1] + 1]

\* C28: ImgElement::IsPointIn answers false for a point outside the element's
\* bounds and for an element without image or of non-positive pixel size;
\* for a point inside the bounds of an element that shows an image it
\* answers true when the pixel the point maps to cannot be read, and
\* otherwise true exactly when that pixel's opacity is above 0.
C28_ImgIsPointIn ==
  img_out.op = "IsPointIn" =>
    /\ ~AskedInside => ~img_out.ret
    /\ (AskedInside /\ ~ShowsImage) => ~img_out.ret
    /\ (AskedInside /\ ShowsImage) =>
         img_out.ret = (~PixelReadable \/ PixelAlpha > 0)

\* A hit test inside the bounds that lands on a transparent pixel of a
\* cropped image and answers false.
C28_Witness ==
  /\ img_out.op = "IsPointIn"
  /\ AskedInside /\ ShowsImage
  /\ crop_ # "CROP_FALSE"
  /\ PixelReadable /\ PixelAlpha = 0
  /\ ~img_out.ret

\* The visible children that contained the event point when the pass began,
\* and the topmost of them.
HitChildren ==
  {snap[i] : i \in {j \in 1 .. Len(snap) :
                      IsVisible(snap[j]) /\ EventIn(snap[j])}}
TopmostHit ==
  CHOOSE t \in HitChildren : \A o \in HitChildren : SnapPos(o) <= SnapPos(t)

\* Every child the pass dispatched to survived its call.
DispatchedSurvived == \A k \in Log : IsRet(k) => calls[k].ok

\* OnMouseEvent has returned.
MouseReturned == pc = "done" /\ kind = "mouse"

\* C31: when OnMouseEvent returns and the children it dispatched to
\* survived, *in_element is NULL if no visible child contains the point, and
\* otherwise it is the topmost such child or the descendant that child
\* reported, whichever sibling fired.
C31_InElementOfTopmost ==
  (MouseReturned /\ DispatchedSurvived) =>
    IF HitChildren = {}
    THEN in_element = Null
    ELSE in_element # Null /\ Base(in_element) = TopmostHit

\* A pass in which the topmost hit child did not fire and a lower sibling
\* did: *in_element is still the topmost child's.
C31_Witness ==
  /\ MouseReturned /\ DispatchedSurvived /\ ~ub_iter
  /\ fired_element # Null
  /\ in_element # Null
  /\ Base(fired_element) # Base(in_element)
  /\ SnapPos(Base(fired_element)) < SnapPos(Base(in_element))

\* C32: when OnMouseEvent returns, *in_element and *fired_element are each
\* NULL or point at an element that is still alive.
C32_OutputsAlive ==
  MouseReturned =>
    /\ in_element = Null \/ PtrAlive(in_element)
    /\ fired_element = Null \/ PtrAlive(fired_element)

\* C33: while the nested handler call of a dispatch step runs, the view's
\* registry holds the child pointer and, in a mouse pass, the local
\* descendant-in-element pointer; at every other moment, and so after the
\* dispatch function has returned by whichever exit, it holds no
\* registration of the collection; a child found destroyed right after its
\* call ends the pass there.
C33_RegistrationsScoped ==
  /\ (pc = "call" /\ kind = "mouse") =>
       registry = {"child", "descendant_in_element"}
  /\ (pc = "call" /\ kind = "drag") => registry = {"child"}
  /\ pc # "call" => registry = {}
  /\ \A k \in Log :
       (IsRet(k) /\ ~calls[k].ok) => (k = Len(calls) /\ pc = "done")

\* A pass that has returned through each of the three exits of an
\* iteration: here, after a child that was destroyed in its handler.
C33_Witness ==
  /\ pc = "done" /\ registry = {}
  /\ \E j, k \in Log :
       /\ j < k /\ IsRet(j) /\ calls[j].ok /\ calls[j].fired = Null
       /\ IsRet(k) /\ ~calls[k].ok

UnhandledDrags ==
  {k \in 1 .. Len(delivered) :
     /\ delivered[k].type = "MOUSE_MOVE"
     /\ delivered[k].button # {}
     /\ delivered[k].result = EVENT_RESULT_UNHANDLED}

DragBegan == UnhandledDrags # {}

FirstDrag == CHOOSE k \in UnhandledDrags : \A j \in UnhandledDrags : k <= j

\* The MOUSE_UP events of the current gesture that no release has caused.
SynthesizedUps ==
  {k \in 1 .. Len(delivered) :
     delivered[k].type = "MOUSE_UP" /\ delivered[k].by # "release"}

\* C35: in the gesture that began with the last press, once the view has
\* left a move with a button held unhandled it has received exactly one
\* synthesized MOUSE_UP, right after that move, and a release delivers
\* nothing from then on; a release in a gesture without such a move delivers
\* MOUSE_UP and then MOUSE_CLICK for the left button or MOUSE_RCLICK for
\* another one; a press leaves the drag state reset.
C35_GestureProtocol ==
  /\ DragBegan =>
       /\ SynthesizedUps = {FirstDrag + 1}
       /\ \A k \in 1 .. Len(delivered) :
            delivered[k].by = "release" => k < FirstDrag
       /\ qt_last.handler = "release" => qt_last.did = "ignored"
  /\ ~DragBegan =>
       /\ SynthesizedUps = {}
       /\ qt_last.handler = "release" =>
            /\ Len(delivered) >= 2
            /\ delivered[Len(delivered) - 1].type = "MOUSE_UP"
            /\ delivered[Len(delivered) - 1].button = {qt_last.button}
            /\ delivered[Len(delivered)].type =
                 (IF qt_last.button = "LeftButton" THEN "MOUSE_CLICK"
                  ELSE "MOUSE_RCLICK")
            /\ delivered[Len(delivered)].button = {qt_last.button}
  /\ qt_last.handler = "press" =>
       /\ ~mouse_drag_moved_ /\ ~resize_drag_
       /\ ~DragBegan

\* The last button is released after a drag of the window that began in
\* the gesture of the last press.
C35_Witness ==
  /\ qt_last.handler = "release" /\ qt_last.did = "ignored"
  /\ DragBegan /\ qt_buttons = {}
  /\ delivered[1].type = "MOUSE_DOWN"

\* The parts of a path as the caller of SplitFilePath expects them.
Separators(path) == {i \in 1 .. Len(path) : path[i] = "/"}

LastSeparator(path) ==
  CHOOSE i \in Separators(path) : \A j \in Separators(path) : j <= i

\* The part before position i without the separators at its end.
RECURSIVE Stripped(_, _)
Stripped(path, i) ==
  IF i > 1 /\ path[i - 1] = "/" THEN Stripped(path, i - 1)
  ELSE SubSeq(path, 1, i - 1)

\* C36: SplitFilePath, given both output pointers and a non-empty path with
\* a separator followed by a non-empty file name, returns true with
\* filename the part after the last separator and dir the part before it
\* without the separating separators, or the root directory when nothing
\* precedes them; given a path without separator it returns false with
\* filename the path and dir empty.
C36_SplitFilePath ==
  LET path == split_out.path
      last == LastSeparator(path)
      before == Stripped(path, last)
  IN (split_out.dir_set /\ split_out.filename_set) =>
       /\ (Separators(path) # {} /\ last < Len(path)) =>
            /\ split_out.ret
            /\ split_out.filename = SubSeq(path, last + 1, Len(path))
            /\ split_out.dir = IF before = <<>> THEN <<"/">> ELSE before
       /\ (path # <<>> /\ Separators(path) = {}) =>
            /\ ~split_out.ret
            /\ split_out.filename = path
            /\ split_out.dir = <<>>

\* The names loaded in a manager.
LoadedNames(m) == {x.name : x \in extensions_[m]}

\* The step is a call of the operation on manager m.
Called_(op, m) == ext_out'.op = op /\ ext_out'.mgr = m

\* C37: from the moment a manager is the global manager it stays the global
\* manager and exists, all its extensions are resident, no step changes
\* its set of loaded extensions, every LoadExtension on it of a name that
\* is not loaded fails and every UnloadExtension on it returns false.
C37_GlobalIsReadOnly ==
  /\ [](\A m \in Managers :
          global_manager_ = m =>
            /\ m \in managers /\ readonly_[m]
            /\ \A x \in extensions_[m] : x.resident)
  /\ [][\A m \in Managers :
          global_manager_ = m =>
            /\ global_manager_' = m
            /\ extensions_'[m] = extensions_[m]
            /\ \A name \in ExtNames \ LoadedNames(m) :
                 (Called_("LoadExtension", m) /\ ext_out'.name = name)
                   => ~ext_out'.ret
            /\ Called_("UnloadExtension", m) => ~ext_out'.ret]_vars

\* The global manager, holding two extensions, has refused an unload of one
\* of them.
C37_Witness ==
  /\ global_manager_ # Null
  /\ LoadedNames(global_manager_) = ValidExtensions
  /\ ext_out.op = "UnloadExtension" /\ ext_out.mgr = global_manager_
  /\ ext_out.name \in ValidExtensions /\ ~ext_out.ret
  /\ \E x, y \in extensions_[global_manager_] : x.id < y.id

\* C38: a module that is resident stays loaded and resident while its
\* manager exists; a successful LoadExtension with resident = true leaves
\* the name resident; UnloadExtension of a resident extension returns false
\* and of a loaded extension that is not resident returns true and removes
\* it; no manager ever holds two modules for one name.
C38_ResidencyMonotonic ==
  /\ [](\A m \in Managers : \A x, y \in extensions_[m] :
          x.name = y.name => x = y)
  /\ [][\A m \in Managers :
          /\ \A x \in extensions_[m] :
               (x.resident /\ m \in managers') => x \in extensions_'[m]
          /\ (Called_("LoadExtension", m) /\ ext_out'.resident /\ ext_out'.ret)
               => \E x \in extensions_'[m] :
                    x.name = ext_out'.name /\ x.resident
          /\ \A x \in extensions_[m] :
               (Called_("UnloadExtension", m) /\ ext_out'.name = x.name) =>
                 IF x.resident
                 THEN ~ext_out'.ret /\ x \in extensions_'[m]
                 ELSE ext_out'.ret /\ x.name \notin LoadedNames(m)']_vars

\* In a manager that is not read-only, the resident extension whose module
\* was the first one made has refused to be unloaded after later loads.
C38_Witness ==
  /\ ext_out.op = "UnloadExtension" /\ ~ext_out.ret
  /\ ext_out.mgr \in managers /\ ~readonly_[ext_out.mgr]
  /\ \E x \in extensions_[ext_out.mgr] :
       x.name = ext_out.name /\ x.resident /\ x.id = 1
  /\ next_module > 2

\* C39: SetGlobalExtensionManager returns true exactly when no global
\* manager is set and its argument is not NULL, and then the argument is
\* the global manager; once set the global manager never changes; Destroy
\* on the global manager (or on NULL) returns false and deletes nothing,
\* Destroy on another manager deletes it and returns true.
C39_GlobalSetOnce ==
  [][/\ global_manager_ # Null => global_manager_' = global_manager_
     /\ \A m \in {Null} \cup Managers :
          /\ Called_("SetGlobalExtensionManager", m) =>
               /\ ext_out'.ret <=> (global_manager_ = Null /\ m # Null)
               /\ global_manager_' = IF ext_out'.ret THEN m
                                     ELSE global_manager_
          /\ Called_("Destroy", m) =>
               IF m = Null \/ m = global_manager_
               THEN ~ext_out'.ret /\ managers' = managers
               ELSE ext_out'.ret /\ managers' = managers \ {m}]_vars

\* The global manager has survived Destroy after another manager was
\* destroyed.
C39_Witness ==
  /\ ext_out.op = "Destroy" /\ ext_out.mgr = global_manager_
  /\ global_manager_ # Null /\ ~ext_out.ret
  /\ global_manager_ \in managers
  /\ destroyed # {}

\* C40: no operation of the image element calls through the image pointer
\* while no image is loaded, SetColorMultiply with a new value included, and
\* while no image is loaded the source size is (0, 0).
C40_SafeWithoutImage ==
  /\ ~img_fault
  /\ image_ = Null => src_size = <<0, 0>>

====
